---- MODULE Spec2Model ----
(***************************************************************************)
(* Model of the dataset cache / HTTP transport                             *)
(* (tradingstrategy/transport/cache.py, CachedHTTPTransport) and of the    *)
(* trading pair filters (tradingstrategy/utils/token_filter.py).           *)
(*                                                                         *)
(* Time is counted in whole units; consecutive statements of one handler   *)
(* run within one unit, a streamed download may span several.              *)
(***************************************************************************)
EXTENDS Integers, Sequences, FiniteSets, TLC

\* ------------------------------------------------------------------ bounds
MaxTime == 3        \* the clock runs 0..MaxTime
MaxPeriod == 2      \* cache_period is drawn from 1..MaxPeriod
MaxCalls == 3       \* number of transport calls started in one behaviour

\* ------------------------------------------------------ python value helpers
None == [kind |-> "None"]
Raise(exc, msg) == [kind |-> "raise", exc |-> exc, msg |-> msg]
Json(text) == [kind |-> "json", text |-> text]
FileObj(path, file) == [kind |-> "file", path |-> path, body |-> file.body, size |-> file.size]

\* bool(x) of a returned object: None is falsy, an open file object is truthy
PyTruth(x) == x.kind # "None"

\* ------------------------------------------------------------------ paths
\* A path is absolute or relative and has a list of components.
Path(abs, parts) == [abs |-> abs, parts |-> parts]

\* (mutant) a join that always appends
OsPathJoin_Append(a, b) == Path(a.abs, a.parts \o b.parts)

\* os.path.join(a, b): an absolute b discards a
OsPathJoin(a, b) == IF b.abs THEN b ELSE Path(a.abs, a.parts \o b.parts)

Cwd == Path(TRUE, << <<"work">> >>)

\* os.path.abspath
OsPathAbspath(p) == IF p.abs THEN p ELSE OsPathJoin(Cwd, p)

\* os.path.expanduser("~/.cache/trading-strategy")
DefaultCachePath == Path(TRUE, << <<"home">>, <<".cache">>, <<"trading-strategy">> >>)

DefaultEndpoint == "https://candlelightdinner.tradingstrategy.ai"

\* ------------------------------------------------------- dataset identities
Buckets == {"1h", "1d"}
NoBucket == "-"
Kinds == {"pair-universe", "exchange-universe", "candles", "liquidity"}
TimeSeriesKinds == {"candles", "liquidity"}

Identity(kind, bucket) == [kind |-> kind, bucket |-> bucket]

Identities ==
    {Identity(k, NoBucket) : k \in Kinds \ TimeSeriesKinds}
        \cup {Identity(k, b) : k \in TimeSeriesKinds, b \in Buckets}

\* the fname each fetch_* builds (a relative one-component path)
\* (mutant) file names that leave the bucket out
Fname_NoBucket(id) == Path(FALSE, << <<id.kind, ".parquet">> >>)

Fname(id) ==
    CASE id.kind = "pair-universe" -> Path(FALSE, << <<"pair-universe.parquet">> >>)
      [] id.kind = "exchange-universe" -> Path(FALSE, << <<"exchange-universe.json">> >>)
      [] id.kind = "candles" -> Path(FALSE, << <<"candles-", id.bucket, ".parquet">> >>)
      [] id.kind = "liquidity" -> Path(FALSE, << <<"liquidity-samples-", id.bucket, ".parquet">> >>)

NoParams == <<>>

get_abs_cache_path == OsPathAbspath(DefaultCachePath)

get_cached_file_path(fname) == OsPathJoin(get_abs_cache_path, fname)

CachePaths == {get_cached_file_path(Fname(id)) : id \in Identities}

\* ------------------------------------------------------------- file system
\* A file holds (a prefix of) a body the server served: nothing of it yet
\* ("empty"), a part of it ("partial") or all of it ("complete").
Generations == {1, 2}
NoBody == [res |-> "-", bucket |-> NoBucket, gen |-> 0]
NoFile == [exists |-> FALSE, mtime |-> 0, body |-> NoBody, size |-> "empty"]

\* ------------------------------------------------------------------ state
Callers == {"c1", "c2"}

VARIABLES
    now,            \* the wall clock (datetime.datetime.now())
    cache_period,   \* self.cache_period
    api_key,        \* the api_key given to the constructor ("" when none)
    rootExists,     \* whether the cache root directory exists on disk
    fs,             \* the files under the cache root: path -> file
    active,         \* the callers that use the transport
    datasets,       \* the datasets the callers ask for
    pc,             \* where each caller is: idle, downloading, returned, raised
    call,           \* the call each caller is in, with what it did so far
    result,         \* what the finished call returned or raised
    ncalls          \* calls started so far

VARIABLES
    pairs_df,       \* the pair table handed to a filter
    fargs,          \* the other arguments of the filter call
    fpc,            \* "ready" before the call, then the name of the filter called
    fres            \* what the filter returned: the table and what it printed

VARIABLES
    universe,       \* the pair ids, the liquidity samples and min_liquidity of a strategy run
    strategy        \* the strategy object: its day, its liquidity_reached_state, its last tick

fvars == <<pairs_df, fargs, fpc, fres>>

avars == <<universe, strategy>>

tvars == <<now, cache_period, api_key, rootExists, fs, active, datasets, pc, call, result, ncalls>>

\* ------------------------------------------------------------ HTTP session
\* What the server can answer: a response with a status and a text, or no
\* response at all (the connection fails).
Response(status, text) == [failed |-> FALSE, status_code |-> status, text |-> text]
ConnectionFailure == [failed |-> TRUE, status_code |-> 0, text |-> ""]
NoResponse == [failed |-> FALSE, status_code |-> 0, text |-> ""]
Responses ==
    {Response(200, "ok"), Response(399, "ok"), Response(400, "not found"),
     Response(404, "not found"), Response(404, "gone")}
Outcomes == Responses \cup {ConnectionFailure}

\* the api_key the constructor is given: none ("") or a key
ApiKeys == {"", "secret-key"}

\* (mutant) a session that never gets the header
SessionHeaders_NoAuthorization(key) == {}

\* create_requests_client: the session's default headers
SessionHeaders(key) == IF key # "" THEN {<<"Authorization", key>>} ELSE {}

\* (mutant) a hook that lets status 400 itself pass
exception_hook_Above400(response) ==
    IF response.status_code > 400 THEN [kind |-> "raise", exc |-> "APIError", msg |-> response.text]
    ELSE [kind |-> "None"]

\* create_requests_client: the response hook of the session
exception_hook(response) ==
    IF response.status_code >= 400 THEN Raise("APIError", response.text) ELSE None

Request(method, url, params, headers) ==
    [method |-> method, url |-> url, params |-> params, headers |-> headers]
NoRequest == Request("-", <<>>, NoParams, {})

Url(api_path) == <<DefaultEndpoint, api_path>>

\* requests.Session.request: a failed connection raises, every response
\* received goes through the response hook, which may raise
SessionSend(outcome) ==
    IF outcome.failed THEN Raise("ConnectionError", "") ELSE exception_hook(outcome)

\* ------------------------------------------------------------ cache lookup
Exists(files, path) == path \in DOMAIN files /\ files[path].exists

\* (mutant) an entry expires as soon as its age reaches the period
get_cached_item_ExpiresAtPeriod(fname, files, t, period) ==
    LET path == get_cached_file_path(fname) IN
    IF ~Exists(files, path) THEN None
    ELSE IF t - files[path].mtime >= period THEN None
    ELSE FileObj(path, files[path])

get_cached_item(fname, files, t, period) ==
    LET path == get_cached_file_path(fname) IN
    IF ~Exists(files, path) THEN None
    ELSE IF t - files[path].mtime > period THEN None
    ELSE FileObj(path, files[path])

\* ---------------------------------------------------------------- calls
NoDownload == [fpath |-> Path(FALSE, <<>>), url |-> <<>>, params |-> NoParams, headers |-> {}]
NoId == Identity("-", NoBucket)

NoCall ==
    [op |-> "-", id |-> NoId, t0 |-> 0, before |-> NoFile, rootBefore |-> FALSE,
     hit |-> FALSE, reads |-> 0, ndl |-> 0, dl |-> NoDownload, resp |-> NoResponse,
     served |-> NoBody, written |-> "empty", dlfailed |-> FALSE, sent |-> NoRequest, recheck |-> Path(FALSE, <<>>)]

StartCall(c, op, id) ==
    [NoCall EXCEPT !.op = op, !.id = id, !.t0 = now, !.rootBefore = rootExists,
                   !.before = IF id \in Identities /\ rootExists
                              THEN fs[get_cached_file_path(Fname(id))] ELSE NoFile]

CanStart(c) == c \in active /\ pc[c] = "idle" /\ ncalls < MaxCalls

\* What one client asks for: every kind, the same kind at two buckets, two
\* kinds at the same bucket.
Workloads ==
    {{Identity("pair-universe", NoBucket), Identity("exchange-universe", NoBucket)},
     {Identity("candles", "1h"), Identity("candles", "1d")},
     {Identity("candles", "1d"), Identity("liquidity", "1d")},
     {Identity("pair-universe", NoBucket), Identity("liquidity", "1h")}}

TInit ==
    /\ now = 0
    /\ datasets \in Workloads
    /\ cache_period \in 1..MaxPeriod
    /\ api_key \in ApiKeys
    /\ rootExists = FALSE
    /\ fs = [p \in CachePaths |-> NoFile]
    /\ pc = [c \in Callers |-> "idle"]
    /\ call = [c \in Callers |-> NoCall]
    /\ result = [c \in Callers |-> None]
    /\ ncalls = 0

\* ------------------------------------------------------- error propagation
\* (mutant) a fetch that falls back to the stale entry when the download fails
Propagate_StaleFallback(c, cl, err) ==
    /\ pc' = [pc EXCEPT ![c] = IF cl.before.exists THEN "returned" ELSE "raised"]
    /\ result' = [result EXCEPT ![c] =
                     IF cl.before.exists
                     THEN FileObj(get_cached_file_path(Fname(cl.id)), cl.before) ELSE err]
    /\ call' = [call EXCEPT ![c] = cl]

\* fetch_* and save_response hold no try/except: what the download raises
\* leaves the fetch as it is
Propagate(c, cl, err) ==
    /\ pc' = [pc EXCEPT ![c] = "raised"]
    /\ result' = [result EXCEPT ![c] = err]
    /\ call' = [call EXCEPT ![c] = cl]

\* the last statement of fetch_*: return self.get_cached_item(<name>)
FetchReturn(c, cl, files) ==
    /\ pc' = [pc EXCEPT ![c] = "returned"]
    /\ result' = [result EXCEPT ![c] = get_cached_item(cl.recheck, files, now, cache_period)]
    /\ call' = [call EXCEPT ![c] = [cl EXCEPT !.reads = @ + 1]]

\* ------------------------------------------------------------- download_func
\* The body the server serves for a url and its query parameters.
ServedBody(url, params, g) ==
    [res |-> url[2], bucket |-> IF params = NoParams THEN NoBucket ELSE params[2], gen |-> g]

WriteFile(files, fpath, body, size) ==
    [files EXCEPT ![fpath] = [exists |-> TRUE, mtime |-> now, body |-> body, size |-> size]]

\* download_func(session, path, url, params): the request goes through the
\* session; once a response is there the destination is opened for writing
\* (truncated) and the body is streamed into it chunk by chunk.
DownloadOpen(c, cl, headers, fpath, url, params, outcome, g) ==
    LET r == SessionSend(outcome)
        cl1 == [cl EXCEPT !.resp = outcome, !.sent = Request("GET", url, params, headers)]
    IN  IF r.kind = "raise"
        THEN Propagate(c, [cl1 EXCEPT !.dlfailed = TRUE], r) /\ UNCHANGED fs
        ELSE /\ fs' = WriteFile(fs, fpath, ServedBody(url, params, g), "empty")
             /\ pc' = [pc EXCEPT ![c] = "downloading"]
             /\ call' = [call EXCEPT ![c] = [cl1 EXCEPT !.served = ServedBody(url, params, g)]]
             /\ UNCHANGED result

\* a first chunk of the body reaches the file, more is to come
DownloadChunk(c) ==
    /\ pc[c] = "downloading"
    /\ call[c].written = "empty"
    /\ fs' = WriteFile(fs, call[c].dl.fpath, call[c].served, "partial")
    /\ call' = [call EXCEPT ![c].written = "partial"]
    /\ UNCHANGED <<now, cache_period, api_key, rootExists, active, datasets, pc, result, ncalls>>

\* the stream breaks before the body is complete: download_func raises and
\* leaves the destination as written so far
DownloadInterrupted(c) ==
    /\ pc[c] = "downloading"
    /\ Propagate(c, [call[c] EXCEPT !.dlfailed = TRUE], Raise("ConnectionError", ""))
    /\ UNCHANGED <<now, cache_period, api_key, rootExists, fs, active, datasets, ncalls>>

\* the last chunk reaches the file, download_func and save_response return,
\* and the fetch returns its second lookup
DownloadFinish(c) ==
    /\ pc[c] = "downloading"
    /\ fs' = WriteFile(fs, call[c].dl.fpath, call[c].served, "complete")
    /\ FetchReturn(c, [call[c] EXCEPT !.written = "complete"], fs')
    /\ UNCHANGED <<now, cache_period, api_key, rootExists, active, datasets, ncalls>>

\* ------------------------------------------------------------ save_response
\* (mutant) a store that leaves a file that is already there as it is
save_response_KeepsExisting(c, cl, fpath, api_path, params) ==
    IF Exists(fs, fpath)
    THEN /\ rootExists' = TRUE
         /\ fs' = fs
         /\ FetchReturn(c, [cl EXCEPT !.ndl = @ + 1], fs)
    ELSE /\ rootExists' = TRUE
         /\ \E outcome \in Outcomes, g \in Generations :
              DownloadOpen(c,
                           [cl EXCEPT !.ndl = @ + 1,
                                      !.dl = [fpath |-> fpath, url |-> Url(api_path),
                                              params |-> params, headers |-> SessionHeaders(api_key)]],
                           SessionHeaders(api_key), fpath, Url(api_path), params, outcome, g)

save_response(c, cl, fpath, api_path, params) ==
    /\ rootExists' = TRUE
    /\ \E outcome \in Outcomes, g \in Generations :
         DownloadOpen(c,
                      [cl EXCEPT !.ndl = @ + 1,
                                 !.dl = [fpath |-> fpath, url |-> Url(api_path),
                                         params |-> params, headers |-> SessionHeaders(api_key)]],
                      SessionHeaders(api_key), fpath, Url(api_path), params, outcome, g)

\* ------------------------------------------------------------------ fetch_*
\* (mutant) a fetch that downloads without looking at the cache first
FetchCached_AlwaysDownload(c, op, id, fname, api_path, params, recheck) ==
    /\ CanStart(c)
    /\ ncalls' = ncalls + 1
    /\ save_response(c, [StartCall(c, op, id) EXCEPT !.recheck = recheck],
                     get_cached_file_path(fname), api_path, params)
    /\ UNCHANGED <<now, cache_period, api_key, active, datasets>>

\* (mutant) a fetch whose hit renews the entry's modification time
FetchCached_TouchOnHit(c, op, id, fname, api_path, params, recheck) ==
    /\ CanStart(c)
    /\ ncalls' = ncalls + 1
    /\ LET cl == [StartCall(c, op, id) EXCEPT !.reads = 1, !.recheck = recheck]
           cached == get_cached_item(fname, fs, now, cache_period)
       IN  IF PyTruth(cached)
           THEN /\ pc' = [pc EXCEPT ![c] = "returned"]
                /\ result' = [result EXCEPT ![c] = cached]
                /\ call' = [call EXCEPT ![c] = [cl EXCEPT !.hit = TRUE]]
                /\ fs' = [fs EXCEPT ![get_cached_file_path(fname)].mtime = now]
                /\ UNCHANGED rootExists
           ELSE save_response(c, cl, get_cached_file_path(fname), api_path, params)
    /\ UNCHANGED <<now, cache_period, api_key, active, datasets>>

\* The body the four cached fetches share: look up fname, return a hit, else
\* download into the resolved path and return the lookup of `recheck`.
FetchCached(c, op, id, fname, api_path, params, recheck) ==
    /\ CanStart(c)
    /\ ncalls' = ncalls + 1
    /\ LET cl == [StartCall(c, op, id) EXCEPT !.reads = 1, !.recheck = recheck]
           cached == get_cached_item(fname, fs, now, cache_period)
       IN  IF PyTruth(cached)
           THEN /\ pc' = [pc EXCEPT ![c] = "returned"]
                /\ result' = [result EXCEPT ![c] = cached]
                /\ call' = [call EXCEPT ![c] = [cl EXCEPT !.hit = TRUE]]
                /\ UNCHANGED <<fs, rootExists>>
           ELSE save_response(c, cl, get_cached_file_path(fname), api_path, params)
    /\ UNCHANGED <<now, cache_period, api_key, active, datasets>>

fetch_pair_universe(c) ==
    LET id == Identity("pair-universe", NoBucket)
        fname == Fname(id)
    IN  FetchCached(c, "fetch_pair_universe", id, fname, "pair-universe", NoParams, fname)

fetch_exchange_universe(c) ==
    LET id == Identity("exchange-universe", NoBucket)
        fname == Fname(id)
    IN  FetchCached(c, "fetch_exchange_universe", id, fname, "exchange-universe", NoParams, fname)

fetch_candles_all_time(c, bucket) ==
    LET id == Identity("candles", bucket)
        fname == Fname(id)
        path == get_cached_file_path(fname)
    IN  FetchCached(c, "fetch_candles_all_time", id, fname, "candles-all", <<"bucket", bucket>>, path)

fetch_liquidity_all_time(c, bucket) ==
    LET id == Identity("liquidity", bucket)
        fname == Fname(id)
        path == get_cached_file_path(fname)
    IN  FetchCached(c, "fetch_liquidity_all_time", id, fname, "liquidity-all", <<"bucket", bucket>>, path)

\* ------------------------------------------------------------ live calls
ChainIds == {56}

\* get_json_response / post_json_response: one request through the session,
\* the parsed body of the response is returned
JsonResponse(c, cl, method, api_path, params) ==
    \E outcome \in Outcomes :
        LET r == SessionSend(outcome)
            cl1 == [cl EXCEPT !.resp = outcome,
                              !.sent = Request(method, Url(api_path), params, SessionHeaders(api_key))]
        IN  IF r.kind = "raise"
            THEN Propagate(c, cl1, r)
            ELSE /\ pc' = [pc EXCEPT ![c] = "returned"]
                 /\ result' = [result EXCEPT ![c] = Json(outcome.text)]
                 /\ call' = [call EXCEPT ![c] = cl1]

get_json_response(c, cl, api_path, params) == JsonResponse(c, cl, "GET", api_path, params)

post_json_response(c, cl, api_path, params) == JsonResponse(c, cl, "POST", api_path, params)

\* (mutant) a chain status that is looked up in the cache store first
fetch_chain_status_Cached(c, chain_id) ==
    /\ CanStart(c)
    /\ ncalls' = ncalls + 1
    /\ rootExists' = TRUE
    /\ get_json_response(c, [StartCall(c, "fetch_chain_status", NoId) EXCEPT !.reads = 1],
                         "chain-status", <<"chain_id", chain_id>>)
    /\ UNCHANGED <<now, cache_period, api_key, fs, active, datasets>>

fetch_chain_status(c, chain_id) ==
    /\ CanStart(c)
    /\ ncalls' = ncalls + 1
    /\ get_json_response(c, StartCall(c, "fetch_chain_status", NoId), "chain-status", <<"chain_id", chain_id>>)
    /\ UNCHANGED <<now, cache_period, api_key, rootExists, fs, active, datasets>>

ping(c) ==
    /\ CanStart(c)
    /\ ncalls' = ncalls + 1
    /\ get_json_response(c, StartCall(c, "ping", NoId), "ping", NoParams)
    /\ UNCHANGED <<now, cache_period, api_key, rootExists, fs, active, datasets>>

message_of_the_day(c) ==
    /\ CanStart(c)
    /\ ncalls' = ncalls + 1
    /\ get_json_response(c, StartCall(c, "message_of_the_day", NoId), "message-of-the-day", NoParams)
    /\ UNCHANGED <<now, cache_period, api_key, rootExists, fs, active, datasets>>

register(c, first_name, last_name, email) ==
    /\ CanStart(c)
    /\ ncalls' = ncalls + 1
    /\ post_json_response(c, StartCall(c, "register", NoId), "register",
                          <<"first_name", first_name, "last_name", last_name, "email", email>>)
    /\ UNCHANGED <<now, cache_period, api_key, rootExists, fs, active, datasets>>

\* -------------------------------------------------------------- purge_cache
PyStr(path) == [type |-> "str", path |-> path, days |-> 0]
PyTimedelta(days) == [type |-> "timedelta", path |-> Path(FALSE, <<>>), days |-> days]

\* shutil.rmtree(obj): what it raises (None when it returns) and the file
\* system it leaves. Only a path names a tree; a missing tree is an error.
ShutilRmtree(obj, files, root) ==
    IF obj.type # "str"
    THEN [raises |-> Raise("TypeError", ""), fs |-> files, rootExists |-> root]
    ELSE IF ~(obj.path = get_abs_cache_path /\ root)
    THEN [raises |-> Raise("FileNotFoundError", ""), fs |-> files, rootExists |-> root]
    ELSE [raises |-> None, fs |-> [p \in DOMAIN files |-> NoFile], rootExists |-> FALSE]

\* (mutant) a purge that does nothing when there is nothing to delete
purge_cache_QuietWhenAbsent(c) ==
    /\ CanStart(c)
    /\ ncalls' = ncalls + 1
    /\ LET r == IF rootExists
                THEN ShutilRmtree(PyTimedelta(cache_period), fs, rootExists)
                ELSE [raises |-> None, fs |-> fs, rootExists |-> rootExists]
           cl == StartCall(c, "purge_cache", NoId)
       IN  /\ fs' = r.fs
           /\ rootExists' = r.rootExists
           /\ IF r.raises.kind = "raise"
              THEN Propagate(c, cl, r.raises)
              ELSE /\ pc' = [pc EXCEPT ![c] = "returned"]
                   /\ result' = [result EXCEPT ![c] = None]
                   /\ call' = [call EXCEPT ![c] = cl]
    /\ UNCHANGED <<now, cache_period, api_key, active, datasets>>

purge_cache(c) ==
    /\ CanStart(c)
    /\ ncalls' = ncalls + 1
    /\ LET r == ShutilRmtree(PyTimedelta(cache_period), fs, rootExists)
           cl == StartCall(c, "purge_cache", NoId)
       IN  /\ fs' = r.fs
           /\ rootExists' = r.rootExists
           /\ IF r.raises.kind = "raise"
              THEN Propagate(c, cl, r.raises)
              ELSE /\ pc' = [pc EXCEPT ![c] = "returned"]
                   /\ result' = [result EXCEPT ![c] = None]
                   /\ call' = [call EXCEPT ![c] = cl]
    /\ UNCHANGED <<now, cache_period, api_key, active, datasets>>

\* ------------------------------------------------------------ environment
\* the caller takes the result (or the exception) and is free to call again
Return(c) ==
    /\ pc[c] \in {"returned", "raised"}
    /\ pc' = [pc EXCEPT ![c] = "idle"]
    /\ call' = [call EXCEPT ![c] = NoCall]
    /\ result' = [result EXCEPT ![c] = None]
    /\ UNCHANGED <<now, cache_period, api_key, rootExists, fs, active, datasets, ncalls>>

\* time passes while callers are idle or a download streams
Tick ==
    /\ now < MaxTime
    /\ \A c \in Callers : pc[c] \in {"idle", "downloading"}
    /\ now' = now + 1
    /\ UNCHANGED <<cache_period, api_key, rootExists, fs, active, datasets, pc, call, result, ncalls>>

TNext ==
    \/ \E c \in Callers :
          Identity("pair-universe", NoBucket) \in datasets /\ fetch_pair_universe(c)
          /\ UNCHANGED <<fvars, avars>>
    \/ \E c \in Callers :
          Identity("exchange-universe", NoBucket) \in datasets /\ fetch_exchange_universe(c)
          /\ UNCHANGED <<fvars, avars>>
    \/ \E c \in Callers, b \in Buckets :
          Identity("candles", b) \in datasets /\ fetch_candles_all_time(c, b)
          /\ UNCHANGED <<fvars, avars>>
    \/ \E c \in Callers, b \in Buckets :
          Identity("liquidity", b) \in datasets /\ fetch_liquidity_all_time(c, b)
          /\ UNCHANGED <<fvars, avars>>
    \/ \E c \in Callers, chain_id \in ChainIds : fetch_chain_status(c, chain_id) /\ UNCHANGED <<fvars, avars>>
    \/ \E c \in Callers : ping(c) /\ UNCHANGED <<fvars, avars>>
    \/ \E c \in Callers : message_of_the_day(c) /\ UNCHANGED <<fvars, avars>>
    \/ \E c \in Callers : register(c, "Ann", "Lee", "ann@example.org") /\ UNCHANGED <<fvars, avars>>
    \/ \E c \in Callers : purge_cache(c) /\ UNCHANGED <<fvars, avars>>
    \/ \E c \in Callers : DownloadChunk(c) /\ UNCHANGED <<fvars, avars>>
    \/ \E c \in Callers : DownloadInterrupted(c) /\ UNCHANGED <<fvars, avars>>
    \/ \E c \in Callers : DownloadFinish(c) /\ UNCHANGED <<fvars, avars>>
    \/ \E c \in Callers : Return(c) /\ UNCHANGED <<fvars, avars>>
    \/ Tick /\ UNCHANGED <<fvars, avars>>

vars == <<tvars, fvars, avars>>

\* no filter call is under way
FIdle ==
    /\ pairs_df = <<>>
    /\ fargs = [none |-> TRUE]
    /\ fpc = "off"
    /\ fres = [df |-> <<>>, log |-> <<>>]

\* no strategy is running
AIdle ==
    /\ universe = [none |-> TRUE]
    /\ strategy = [none |-> TRUE]

Init == TInit /\ active = {"c1"} /\ api_key = "" /\ FIdle /\ AIdle

Next == TNext

Spec == Init /\ [][Next]_vars

\* ====================================================== transport claims
FetchOps ==
    {"fetch_pair_universe", "fetch_exchange_universe",
     "fetch_candles_all_time", "fetch_liquidity_all_time"}
LiveOps == {"fetch_chain_status", "ping", "message_of_the_day", "register"}

\* the cache file of an identity
CachePathOf(id) == get_cached_file_path(Fname(id))

\* the server resource and query of a dataset kind (external interface table)
ClaimedResource(id) ==
    CASE id.kind = "pair-universe" -> "pair-universe"
      [] id.kind = "exchange-universe" -> "exchange-universe"
      [] id.kind = "candles" -> "candles-all"
      [] id.kind = "liquidity" -> "liquidity-all"
ClaimedParams(id) ==
    IF id.kind \in TimeSeriesKinds THEN <<"bucket", id.bucket>> ELSE NoParams

\* the entry of the call's identity as the call found it: VALID when the file
\* exists and its age is not above the period
ValidAtCall(c) ==
    /\ call[c].before.exists
    /\ call[c].t0 - call[c].before.mtime <= cache_period

\* C1: a cached fetch whose entry is VALID at the call returns the cached
\* content of that identity and invokes the download function zero times.
C1_NoDownloadOnHit ==
    \A c \in Callers :
        (call[c].op \in FetchOps /\ ValidAtCall(c)) =>
            /\ pc[c] = "returned"
            /\ call[c].ndl = 0
            /\ result[c] = FileObj(CachePathOf(call[c].id), call[c].before)

C1_Witness ==
    \E c \in Callers :
        /\ call[c].op = "fetch_candles_all_time"
        /\ ValidAtCall(c)
        /\ call[c].t0 > call[c].before.mtime
        /\ call[c].before.size = "complete"
        /\ pc[c] = "returned"

\* C2: a cached fetch whose entry is EXPIRED or ABSENT invokes the download
\* function exactly once, with the cache path of its identity as destination
\* and the resource path and query of its kind; when the download succeeds it
\* returns the complete content the download just wrote for that identity.
C2_MissDownloadsOnce ==
    \A c \in Callers :
        (call[c].op \in FetchOps /\ ~ValidAtCall(c)) =>
            /\ call[c].ndl = 1
            /\ call[c].dl.fpath = CachePathOf(call[c].id)
            /\ call[c].dl.url = <<DefaultEndpoint, ClaimedResource(call[c].id)>>
            /\ call[c].dl.params = ClaimedParams(call[c].id)
            /\ pc[c] = "returned" =>
                  /\ call[c].served.res = ClaimedResource(call[c].id)
                  /\ call[c].served.bucket = call[c].id.bucket
                  /\ result[c] = [kind |-> "file", path |-> CachePathOf(call[c].id),
                                  body |-> call[c].served, size |-> "complete"]

C2_Witness ==
    \E c \in Callers :
        /\ call[c].op = "fetch_liquidity_all_time"
        /\ call[c].before.exists
        /\ ~ValidAtCall(c)
        /\ pc[c] = "returned"
        /\ result[c].kind = "file"
        /\ result[c].body.gen # call[c].before.body.gen

\* C3 as stated: an entry written at T is VALID at every t with
\* T <= t < T+period and EXPIRED at every t >= T+period.
C3_ExpiredAtDeadline ==
    \A c \in Callers :
        (call[c].op \in FetchOps /\ call[c].before.exists) =>
            (call[c].hit <=> call[c].t0 < call[c].before.mtime + cache_period)

\* C3 amended: an entry written at T is VALID at every t with
\* T <= t <= T+period and EXPIRED at every t > T+period.
C3_ValidThroughDeadline ==
    \A c \in Callers :
        (call[c].op \in FetchOps /\ call[c].before.exists) =>
            (call[c].hit <=> call[c].t0 <= call[c].before.mtime + cache_period)

C3_Witness ==
    \E c \in Callers :
        /\ call[c].op \in FetchOps
        /\ call[c].before.exists
        /\ call[c].t0 = call[c].before.mtime + cache_period
        /\ call[c].hit

\* C4: a download that failed after part of the body was written is never
\* reported VALID by a later lookup: no hit returns a partial file.
C4_NoPartialEntryValid ==
    \A c \in Callers :
        (call[c].op \in FetchOps /\ call[c].hit) => result[c].size # "partial"

\* C5: when the download of a fetch fails, the fetch raises that error to its
\* caller, has invoked the download function exactly once, and returns no
\* stale content.
C5_DownloadErrorPropagates ==
    \A c \in Callers :
        (call[c].op \in FetchOps /\ call[c].dlfailed) =>
            /\ pc[c] = "raised"
            /\ call[c].ndl = 1
            /\ result[c].kind = "raise"
            /\ result[c].exc \in {"APIError", "ConnectionError"}

C5_Witness ==
    \E c \in Callers :
        /\ call[c].op \in FetchOps
        /\ call[c].dlfailed
        /\ call[c].before.exists
        /\ call[c].before.size = "complete"
        /\ pc[c] = "raised"

\* C6: every response with status >= 400 received through the session raises
\* APIError with the response body as message; a response with status < 400
\* never raises APIError; for every call that goes through the session.
C6_ErrorTranslation ==
    \A c \in Callers :
        (call[c].op \in FetchOps \cup LiveOps /\ call[c].resp \in Responses) =>
            /\ call[c].resp.status_code >= 400 =>
                  /\ pc[c] = "raised"
                  /\ result[c] = [kind |-> "raise", exc |-> "APIError",
                                  msg |-> call[c].resp.text]
            /\ call[c].resp.status_code < 400 =>
                  ~(result[c].kind = "raise" /\ result[c].exc = "APIError")

C6_Witness ==
    \E c \in Callers :
        /\ call[c].op = "register"
        /\ call[c].resp = Response(404, "not found")
        /\ result[c] = [kind |-> "raise", exc |-> "APIError", msg |-> "not found"]

\* C7: after purge_cache() on a transport whose cache root exists, every
\* dataset identity is ABSENT.
C7_PurgeDeletesAll ==
    \A c \in Callers :
        (call[c].op = "purge_cache" /\ call[c].rootBefore) =>
            \A id \in Identities : ~Exists(fs, CachePathOf(id))

\* C8: fetch_chain_status, ping, message_of_the_day and register issue one
\* live request to their resource (chain-status with the chain_id query) and
\* neither read nor create, modify or delete anything in the cache store.
LiveRequest(op, req) ==
    CASE op = "fetch_chain_status" ->
             /\ req.method = "GET" /\ req.url = <<DefaultEndpoint, "chain-status">>
             /\ Len(req.params) = 2 /\ req.params[1] = "chain_id" /\ req.params[2] \in ChainIds
      [] op = "ping" ->
             req.method = "GET" /\ req.url = <<DefaultEndpoint, "ping">>
      [] op = "message_of_the_day" ->
             req.method = "GET" /\ req.url = <<DefaultEndpoint, "message-of-the-day">>
      [] op = "register" ->
             req.method = "POST" /\ req.url = <<DefaultEndpoint, "register">>

C8_LiveCallsBypassCache ==
    [][\A c \in Callers :
          (pc[c] = "idle" /\ call'[c].op \in LiveOps) =>
              /\ fs' = fs
              /\ rootExists' = rootExists
              /\ call'[c].reads = 0
              /\ call'[c].ndl = 0
              /\ LiveRequest(call'[c].op, call'[c].sent)]_vars

C8_Witness ==
    \E c \in Callers :
        /\ call[c].op = "fetch_chain_status"
        /\ pc[c] = "returned"
        /\ \E id \in Identities : Exists(fs, CachePathOf(id))

\* ======================================================= token_filter.py
\* ----------------------------------------------------------------- strings
\* A string is the sequence of the code points of its characters.
LowerChar(ch) ==
    IF (ch >= 65 /\ ch <= 90) \/ (ch >= 192 /\ ch <= 222 /\ ch # 215) THEN ch + 32 ELSE ch
UpperChar(ch) ==
    IF (ch >= 97 /\ ch <= 122) \/ (ch >= 224 /\ ch <= 254 /\ ch # 247) THEN ch - 32 ELSE ch

\* str.lower(), str.upper(), str.startswith()
StrLower(str) == [i \in 1..Len(str) |-> LowerChar(str[i])]
StrUpper(str) == [i \in 1..Len(str) |-> UpperChar(str[i])]
StartsWith(str, prefix) ==
    Len(prefix) <= Len(str) /\ SubSeq(str, 1, Len(prefix)) = prefix

\* token symbols
USDC == <<85, 83, 68, 67>>
USDT == <<85, 83, 68, 84>>
DAI == <<68, 65, 73>>
BUSD == <<66, 85, 83, 68>>
WETH == <<87, 69, 84, 72>>
WMATIC == <<87, 77, 65, 84, 73, 67>>
WAVAX == <<87, 65, 86, 65, 88>>
WBNB == <<87, 66, 78, 66>>
WARB == <<87, 65, 82, 66>>
SHIB == <<83, 72, 73, 66>>
MKR == <<77, 75, 82>>
mkr == <<109, 107, 114>>
stETH == <<115, 116, 69, 84, 72>>
ohm == <<111, 104, 109>>
OHM == <<79, 72, 77>>
KLIMA == <<75, 76, 73, 77, 65>>
WETH_accented == <<87, 201, 84, 72>>      \* "WÉTH"
WETH_tab == <<87, 69, 84, 72, 9>>         \* "WETH" and a tab character

DEFAULT_GOOD_QUOTE_TOKENS == {USDC, USDT, WETH, WMATIC, WAVAX, WBNB, WARB}

DERIVATIVE_TOKEN_PREFIXES ==
    { <<119, 115, 116>>,            \* "wst"
      <<111, 115>>,                 \* "os"
      <<51, 67, 114, 118>>,         \* "3Crv"
      <<103, 79, 72, 77>>,          \* "gOHM"
      <<115, 116>>,                 \* "st"
      <<98, 108>>,                  \* "bl"
      <<69, 84, 72, 50, 120>> }     \* "ETH2x"

REBASE_TOKENS == {OHM, KLIMA}

\* tradingstrategy.stablecoin.ALL_STABLECOIN_LIKE
ALL_STABLECOIN_LIKE == {USDC, USDT, DAI, BUSD}

\* ------------------------------------------------------------- data frames
\* A DataFrame of pairs is the sequence of its rows; a row carries its index
\* label. Row selection keeps the order of the rows.
Select(df, Keep(_)) == SelectSeq(df, Keep)

\* df.loc[mask] with a boolean mask computed on the frame `of`: the mask is
\* aligned on the index labels
LocMask(df, of, Keep(_)) ==
    SelectSeq(df, LAMBDA r : \E i \in 1..Len(of) : of[i].index = r.index /\ Keep(of[i]))

\* optional arguments: None or a value
Nothing(v) == [some |-> FALSE, v |-> v]
Some(v) == [some |-> TRUE, v |-> v]

\* bool(arg) of an optional int and of an optional collection
TruthInt(arg) == arg.some /\ arg.v # 0
TruthColl(arg) == arg.some /\ arg.v # {}

\* ------------------------------------------------------------------ filters
is_derivative(token_symbol) ==
    \E prefix \in DERIVATIVE_TOKEN_PREFIXES : StartsWith(token_symbol, prefix)

is_rebase(token_symbol) == StrUpper(token_symbol) \in REBASE_TOKENS

filter_for_chain(pairs, chain_id) == Select(pairs, LAMBDA r : r.chain_id = chain_id)

filter_for_exchanges(pairs, exchanges) ==
    LET exchange_ids == {e.exchange_id : e \in exchanges}
    IN  Select(pairs, LAMBDA r : r.exchange_id \in exchange_ids)

filter_for_exchange_ids(pairs, exchange_ids) ==
    Select(pairs, LAMBDA r : r.exchange_id \in exchange_ids)

\* a failed assert statement, and a returned table
AssertionError(msg) == Raise("AssertionError", msg)
Returned(df) == [kind |-> "return", df |-> df]

\* class StablecoinFilteringMode(enum.Enum) and its members
StablecoinFilteringMode(value) == [class |-> "StablecoinFilteringMode", value |-> value]
only_stablecoin_pairs == StablecoinFilteringMode("only_stablecoin_pairs")
only_volatile_pairs == StablecoinFilteringMode("only_volatile_pairs")
all_pairs == StablecoinFilteringMode("all_pairs")

\* a plain str, which is not a member of the enum
PyStrValue(value) == [class |-> "str", value |-> value]

\* (mutant) a mode that is not a member of the enum is taken as only_volatile_pairs
filter_for_stablecoins_NoAssert(pairs, mode) ==
    IF mode.class = "StablecoinFilteringMode" /\ mode = all_pairs THEN Returned(pairs)
    ELSE IF mode.class = "StablecoinFilteringMode" /\ mode = only_stablecoin_pairs
    THEN Returned(Select(pairs, LAMBDA r : r.token0_symbol \in ALL_STABLECOIN_LIKE
                                           /\ r.token1_symbol \in ALL_STABLECOIN_LIKE))
    ELSE Returned(Select(pairs, LAMBDA r : ~(r.token0_symbol \in ALL_STABLECOIN_LIKE
                                             /\ r.token1_symbol \in ALL_STABLECOIN_LIKE)))

filter_for_stablecoins(pairs, mode) ==
    IF mode.class # "StablecoinFilteringMode" THEN AssertionError("")
    ELSE IF mode = all_pairs THEN Returned(pairs)
    ELSE IF mode = only_stablecoin_pairs
    THEN Returned(Select(pairs, LAMBDA r : r.token0_symbol \in ALL_STABLECOIN_LIKE
                                           /\ r.token1_symbol \in ALL_STABLECOIN_LIKE))
    ELSE Returned(Select(pairs, LAMBDA r : ~(r.token0_symbol \in ALL_STABLECOIN_LIKE
                                             /\ r.token1_symbol \in ALL_STABLECOIN_LIKE)))

\* mode only_volatile_pairs
filter_for_stablecoins_volatile(pairs) == filter_for_stablecoins(pairs, only_volatile_pairs).df

\* (mutant) derivatives=True asks for a derivative on both legs
filter_for_derivatives_with_BothLegs(pairs, derivatives) ==
    Select(pairs, LAMBDA r :
        IF derivatives
        THEN is_derivative(r.token0_symbol) /\ is_derivative(r.token1_symbol)
        ELSE ~is_derivative(r.token0_symbol) /\ ~is_derivative(r.token1_symbol))

\* filter_for_derivatives(pairs, derivatives): row_filter and the selection
filter_for_derivatives_with(pairs, derivatives) ==
    Select(pairs, LAMBDA r :
        IF derivatives
        THEN is_derivative(r.token0_symbol) \/ is_derivative(r.token1_symbol)
        ELSE ~is_derivative(r.token0_symbol) /\ ~is_derivative(r.token1_symbol))

\* derivatives=False
filter_for_derivatives(pairs) == filter_for_derivatives_with(pairs, FALSE)

\* (mutant) the first row of the input is kept whatever its symbols
filter_for_rebases_KeepsHead(pairs) ==
    Select(pairs, LAMBDA r :
        r = pairs[1] \/ (~is_rebase(r.token0_symbol) /\ ~is_rebase(r.token1_symbol)))

\* filter_for_rebases(pairs, rebase): row_filter and the selection
filter_for_rebases_with(pairs, rebase) ==
    Select(pairs, LAMBDA r :
        IF rebase
        THEN is_rebase(r.token0_symbol) \/ is_rebase(r.token1_symbol)
        ELSE ~is_rebase(r.token0_symbol) /\ ~is_rebase(r.token1_symbol))

\* rebase=False
filter_for_rebases(pairs) == filter_for_rebases_with(pairs, FALSE)

\* (mutant) the deny-set is used as given, not lowercased
filter_for_blacklisted_tokens_AsGiven(pairs, blacklisted_tokens) ==
    Select(pairs, LAMBDA r :
        ~(\/ r.token0_address \in blacklisted_tokens
          \/ StrLower(r.token0_symbol) \in blacklisted_tokens
          \/ r.token1_address \in blacklisted_tokens
          \/ StrLower(r.token1_symbol) \in blacklisted_tokens))

filter_for_blacklisted_tokens(pairs, blacklisted_tokens) ==
    LET blacklisted == {StrLower(t) : t \in blacklisted_tokens}
    IN  Select(pairs, LAMBDA r :
            ~(\/ r.token0_address \in blacklisted
              \/ StrLower(r.token0_symbol) \in blacklisted
              \/ r.token1_address \in blacklisted
              \/ StrLower(r.token1_symbol) \in blacklisted))

\* (mutant) only code points above Latin-1 count
has_non_ascii_AboveLatin1(text) == \E i \in 1..Len(text) : text[i] > 255

has_non_ascii(text) == \E i \in 1..Len(text) : text[i] > 127

\* (mutant) non-ASCII characters are replaced by "?" in the rows, no row is dropped
filter_for_nonascii_tokens_Replacing(pairs) ==
    LET Clean(text) == [i \in 1..Len(text) |-> IF text[i] > 127 THEN 63 ELSE text[i]]
    IN  [i \in 1..Len(pairs) |->
            [pairs[i] EXCEPT !.token0_symbol = Clean(@), !.token1_symbol = Clean(@)]]

filter_for_nonascii_tokens(pairs) ==
    Select(pairs, LAMBDA r : ~(has_non_ascii(r.token0_symbol) \/ has_non_ascii(r.token1_symbol)))

\* bool(chain_id) of an optional ChainId member
TruthEnum(arg) == arg.some

\* verbose_print(label, len(df)) after a step that gave df
Printed(st, df, label) == [df |-> df, log |-> Append(st.log, <<label, Len(df)>>)]

\* The statements of filter_pairs_default after its first print, in the order
\* they stand in the function.
DefaultPipeline ==
    <<"chain", "fee", "candles", "exchanges", "exchange_ids", "stablecoins",
      "derivatives", "rebases", "quote", "blacklist", "nonascii">>

\* One statement block of filter_pairs_default: st is (tradeable_pairs_df,
\* what was printed so far), pairs is the pairs_df argument.
DefaultStep(name, st, pairs, a) ==
    CASE name = "chain" ->
            IF TruthEnum(a.chain_id)
            THEN Printed(st, filter_for_chain(pairs, a.chain_id.v), "Pairs on chain")
            ELSE st
      [] name = "fee" ->
            IF TruthInt(a.max_trading_pair_fee_bps)
            THEN Printed(st, LocMask(st.df, pairs, LAMBDA r : r.fee <= a.max_trading_pair_fee_bps.v),
                         "Pairs having a good fee")
            ELSE st
      [] name = "candles" ->
            IF TruthColl(a.pair_ids_in_candles)
            THEN Printed(st, Select(st.df, LAMBDA r : r.pair_id \in a.pair_ids_in_candles.v),
                         "Pairs with candle data")
            ELSE st
      [] name = "exchanges" ->
            IF TruthColl(a.exchanges)
            THEN Printed(st, filter_for_exchanges(st.df, a.exchanges.v), "Pairs matching exchange")
            ELSE st
      [] name = "exchange_ids" ->
            IF TruthColl(a.exchange_ids)
            THEN Printed(st, filter_for_exchange_ids(st.df, a.exchange_ids.v), "Pairs matching exchange")
            ELSE st
      [] name = "stablecoins" ->
            Printed(st, filter_for_stablecoins_volatile(st.df), "Pairs that are not stable-stable")
      [] name = "derivatives" ->
            Printed(st, filter_for_derivatives(st.df), "Pairs that are not derivative tokens")
      [] name = "rebases" ->
            Printed(st, filter_for_rebases(st.df), "Pairs that are not rebase tokens")
      [] name = "quote" ->
            Printed(st, Select(st.df, LAMBDA r : r.quote_token_symbol \in a.good_quote_tokes),
                    "Pairs with good quote token")
      [] name = "blacklist" ->
            IF TruthColl(a.blacklisted_token_symbols)
            THEN Printed(st, filter_for_blacklisted_tokens(st.df, a.blacklisted_token_symbols.v),
                         "Pairs without blacklisted base token")
            ELSE st
      [] name = "nonascii" ->
            Printed(st, filter_for_nonascii_tokens(st.df), "Pairs with clean ASCII token name")

RECURSIVE RunSteps(_, _, _, _, _)
\* the statements steps[k..] run one after the other from st
RunSteps(steps, k, st, pairs, a) ==
    IF k > Len(steps) THEN st
    ELSE RunSteps(steps, k + 1,
                  CHOOSE nxt \in {DefaultStep(steps[k], cur, pairs, a) : cur \in {st}} : TRUE,
                  pairs, a)

filter_pairs_default(df, a) ==
    RunSteps(DefaultPipeline, 1,
             [df |-> df, log |-> << <<"Pairs in the input dataset", Len(df)>> >>], df, a)

\* ------------------------------------------------------------------ inputs
MaxRows == 3        \* rows of an input table

Addr(n) == <<48, 120, n>>       \* "0x" and one more character

\* the slug of the exchange with a primary key
ExchangeSlug(exchange_id) == IF exchange_id = 1 THEN "uniswap-v2" ELSE "sushi"

PairRow(pair_id, chain_id, exchange_id, fee, t0, t1, base, quote) ==
    [index |-> 0, pair_id |-> pair_id, chain_id |-> chain_id, exchange_id |-> exchange_id,
     exchange_slug |-> ExchangeSlug(exchange_id),
     fee |-> fee,
     token0_symbol |-> t0[1], token0_address |-> t0[2],
     token1_symbol |-> t1[1], token1_address |-> t1[2],
     base_token_symbol |-> base, quote_token_symbol |-> quote]

\* the rows input tables are made of
RowPool ==
    << PairRow(1, 1, 1, 5, <<USDC, Addr(97)>>, <<WETH, Addr(98)>>, WETH, USDC),
       PairRow(2, 1, 2, 100, <<SHIB, Addr(99)>>, <<USDC, Addr(97)>>, SHIB, USDC),
       PairRow(3, 1, 1, 1, <<USDC, Addr(97)>>, <<USDT, Addr(100)>>, USDC, USDT),
       PairRow(4, 1, 1, 5, <<stETH, Addr(101)>>, <<WETH, Addr(98)>>, stETH, WETH),
       PairRow(5, 56, 2, 30, <<ohm, Addr(102)>>, <<USDC, Addr(97)>>, ohm, USDC),
       PairRow(6, 56, 2, 101, <<WETH, Addr(98)>>, <<USDC, Addr(97)>>, WETH, USDC),
       PairRow(7, 1, 1, 5, <<WETH_accented, Addr(103)>>, <<USDC, Addr(97)>>, WETH_accented, USDC),
       PairRow(8, 1, 2, 5, <<MKR, Addr(104)>>, <<USDC, Addr(97)>>, MKR, USDC),
       PairRow(9, 56, 1, 5, <<WETH, Addr(98)>>, <<DAI, Addr(105)>>, WETH, DAI),
       PairRow(10, 1, 2, 30, <<WETH, Addr(98)>>, <<WETH, Addr(106)>>, WETH, WETH),
       PairRow(11, 1, 1, 5, <<WETH_tab, Addr(107)>>, <<USDC, Addr(97)>>, WETH_tab, USDC) >>

RECURSIVE SortedSeq(_)
\* the members of a set of numbers in increasing order
SortedSeq(S) ==
    IF S = {} THEN <<>>
    ELSE LET m == CHOOSE x \in S : \A y \in S : x <= y
         IN  <<m>> \o SortedSeq(S \ {m})

\* a table: some rows of the pool, in pool order, with a RangeIndex
TableOf(S) ==
    LET ks == SortedSeq(S)
    IN  [i \in 1..Len(ks) |-> [RowPool[ks[i]] EXCEPT !.index = i - 1]]

Tables == {TableOf(S) : S \in {T \in SUBSET (1..Len(RowPool)) : Cardinality(T) <= MaxRows}}

Exchange(exchange_id) == [exchange_id |-> exchange_id]

DefaultArgs ==
    {[max_trading_pair_fee_bps |-> fee, blacklisted_token_symbols |-> bl,
      good_quote_tokes |-> gq, exchanges |-> ex, exchange_ids |-> eid,
      pair_ids_in_candles |-> cand, chain_id |-> chain] :
        fee \in {Nothing(0), Some(0), Some(5), Some(100)},
        bl \in {Nothing({}), Some({mkr})},
        gq \in {DEFAULT_GOOD_QUOTE_TOKENS, {USDC}},
        ex \in {Nothing({}), Some({Exchange(1)})},
        eid \in {Nothing({}), Some({2})},
        cand \in {Nothing({}), Some({}), Some({1, 2, 3})},
        chain \in {Nothing(0), Some(1)}}

\* the transport is not in use
TIdle ==
    /\ now = 0
    /\ cache_period = 1
    /\ api_key = ""
    /\ rootExists = FALSE
    /\ fs = [p \in CachePaths |-> NoFile]
    /\ active = {}
    /\ datasets = {}
    /\ pc = [c \in Callers |-> "idle"]
    /\ call = [c \in Callers |-> NoCall]
    /\ result = [c \in Callers |-> None]
    /\ ncalls = 0

FInit ==
    /\ TIdle
    /\ AIdle
    /\ pairs_df \in Tables
    /\ fargs \in DefaultArgs
    /\ fpc = "ready"
    /\ fres = [df |-> <<>>, log |-> <<>>]

FilterPairsDefault ==
    /\ fpc = "ready"
    /\ fres' = filter_pairs_default(pairs_df, fargs)
    /\ fpc' = "filter_pairs_default"
    /\ UNCHANGED <<pairs_df, fargs>>

FNext == FilterPairsDefault /\ UNCHANGED <<tvars, avars>>

SpecFilter == FInit /\ [][FNext]_vars

\* ------------------------------------------------- stand-alone filters
\* a collection argument: its Python type and its members
Coll(type, items) == [type |-> type, items |-> items]

filter_for_base_tokens(pairs, base_token_addresses) ==
    IF base_token_addresses.type \notin {"list", "set"} THEN AssertionError("Received")
    ELSE IF \E addr \in base_token_addresses.items : addr # StrLower(addr)
    THEN AssertionError("Address was not lowercased")
    ELSE Returned(Select(pairs, LAMBDA r :
            \/ (r.token0_address \in base_token_addresses.items
                /\ r.token0_symbol = r.base_token_symbol)
            \/ (r.token1_address \in base_token_addresses.items
                /\ r.token1_symbol = r.base_token_symbol)))

\* (mutant) the addresses are lowercased, not asserted to be lowercase
filter_for_quote_tokens_Lowercasing(pairs, quote_token_addresses) ==
    IF quote_token_addresses.type \notin {"list", "set"} THEN AssertionError("Received")
    ELSE LET lowered == {StrLower(addr) : addr \in quote_token_addresses.items}
         IN  Returned(Select(pairs, LAMBDA r :
                 \/ (r.token0_address \in lowered /\ r.token0_symbol = r.quote_token_symbol)
                 \/ (r.token1_address \in lowered /\ r.token1_symbol = r.quote_token_symbol)))

filter_for_quote_tokens(pairs, quote_token_addresses) ==
    IF quote_token_addresses.type \notin {"list", "set"} THEN AssertionError("Received")
    ELSE IF \E addr \in quote_token_addresses.items : addr # StrLower(addr)
    THEN AssertionError("Address was not lowercased")
    ELSE Returned(Select(pairs, LAMBDA r :
            \/ (r.token0_address \in quote_token_addresses.items
                /\ r.token0_symbol = r.quote_token_symbol)
            \/ (r.token1_address \in quote_token_addresses.items
                /\ r.token1_symbol = r.quote_token_symbol)))

\* exchange_slug is one slug (type str, one member) or a tuple, set or list
filter_for_exchange(pairs, exchange_slug) ==
    IF exchange_slug.type = "str"
    THEN Returned(Select(pairs, LAMBDA r : {r.exchange_slug} = exchange_slug.items))
    ELSE IF exchange_slug.type \in {"tuple", "set", "list"}
    THEN Returned(Select(pairs, LAMBDA r : r.exchange_slug \in exchange_slug.items))
    ELSE AssertionError("Unsupported exchange slug filter")

\* A Percent is a float; the model writes the fee n / 100000 as the integer n,
\* for 0 <= n <= 1000 and n = 100000. FloatShort holds the n in 1..1000 for
\* which the double product fee * 10_000 falls just below n / 10, as
\* 0.0029 * 10_000 = 28.999999999999996 does.
FloatShort == {30, 60, 120, 240, 290, 480, 580, 930, 960}

\* int(fee * 10_000)
IntFee(n) == IF n \in FloatShort THEN (n \div 10) - 1 ELSE n \div 10

\* (mutant) keeps the fees up to int_fee
filter_for_trading_fee_AtMost(pairs, fee) ==
    IF ~(0 < fee /\ fee < 100000) THEN AssertionError("Got fee")
    ELSE Returned(Select(pairs, LAMBDA r : r.fee <= IntFee(fee)))

filter_for_trading_fee(pairs, fee) ==
    IF ~(0 < fee /\ fee < 100000) THEN AssertionError("Got fee")
    ELSE LET int_fee == IntFee(fee)
         IN  Returned(Select(pairs, LAMBDA r : r.fee = int_fee))

\* ----------------------------------------- calls of the stand-alone filters
\* what a call gave: a table, or the exception it raised
Outcome(res) ==
    IF res.kind = "raise"
    THEN [df |-> <<>>, log |-> <<>>, exc |-> res]
    ELSE [df |-> res.df, log |-> <<>>, exc |-> None]

ChainIdArgs == {1, 56}
ExchangeSlugArgs ==
    {Coll("str", {"uniswap-v2"}), Coll("set", {"uniswap-v2", "sushi"}),
     Coll("list", {"sushi"}), Coll("int", {})}
ExchangesArgs == {{}, {Exchange(1)}, {Exchange(1), Exchange(2)}}
ExchangeIdsArgs == {{}, {2}, {1, 2}}
FeeArgs == {0, 10, 30, 50, 55, 300, 1000, 100000}
AddressArgs ==
    {Coll(type, items) :
        type \in {"list", "set", "tuple"},
        items \in {{}, {Addr(97)}, {Addr(98)}, {Addr(106)}, {Addr(97), Addr(98)},
                   {Addr(65)}, {Addr(97), Addr(66)}}}
BlacklistArgs ==
    {{}, {MKR}, {mkr}, {<<77, 107, 114>>}, {Addr(104)}, {Addr(72)}, {SHIB, WETH}}
ModeArgs ==
    {only_stablecoin_pairs, only_volatile_pairs, all_pairs, PyStrValue("only_volatile_pairs")}
ExclusionOrders ==
    {<<"stablecoins", "derivatives", "rebases">>, <<"stablecoins", "rebases", "derivatives">>,
     <<"derivatives", "stablecoins", "rebases">>, <<"derivatives", "rebases", "stablecoins">>,
     <<"rebases", "stablecoins", "derivatives">>, <<"rebases", "derivatives", "stablecoins">>}

\* a caller's `df = f(pairs_df, args)`
FilterCall(op, args, res) ==
    /\ fpc = "ready"
    /\ fpc' = op
    /\ fargs' = args
    /\ fres' = Outcome(res)
    /\ UNCHANGED pairs_df
    /\ UNCHANGED <<tvars, avars>>

FilterForChain ==
    \E c \in ChainIdArgs :
        FilterCall("filter_for_chain", [chain_id |-> c], Returned(filter_for_chain(pairs_df, c)))

FilterForExchange ==
    \E slug \in ExchangeSlugArgs :
        FilterCall("filter_for_exchange", [exchange_slug |-> slug],
                   filter_for_exchange(pairs_df, slug))

FilterForExchanges ==
    \E ex \in ExchangesArgs :
        FilterCall("filter_for_exchanges", [exchanges |-> ex],
                   Returned(filter_for_exchanges(pairs_df, ex)))

FilterForExchangeIds ==
    \E ids \in ExchangeIdsArgs :
        FilterCall("filter_for_exchange_ids", [exchange_ids |-> ids],
                   Returned(filter_for_exchange_ids(pairs_df, ids)))

FilterForTradingFee ==
    \E fee \in FeeArgs :
        FilterCall("filter_for_trading_fee", [fee |-> fee], filter_for_trading_fee(pairs_df, fee))

FilterForQuoteTokens ==
    \E addrs \in AddressArgs :
        FilterCall("filter_for_quote_tokens", [quote_token_addresses |-> addrs],
                   filter_for_quote_tokens(pairs_df, addrs))

FilterForBaseTokens ==
    \E addrs \in AddressArgs :
        FilterCall("filter_for_base_tokens", [base_token_addresses |-> addrs],
                   filter_for_base_tokens(pairs_df, addrs))

FilterForBlacklistedTokens ==
    \E deny \in BlacklistArgs :
        FilterCall("filter_for_blacklisted_tokens", [blacklisted_tokens |-> deny],
                   Returned(filter_for_blacklisted_tokens(pairs_df, deny)))

FilterForNonasciiTokens ==
    FilterCall("filter_for_nonascii_tokens", [none |-> TRUE],
               Returned(filter_for_nonascii_tokens(pairs_df)))

FilterForStablecoins ==
    \E mode \in ModeArgs :
        FilterCall("filter_for_stablecoins", [mode |-> mode], filter_for_stablecoins(pairs_df, mode))

FilterForDerivatives ==
    \E derivatives \in BOOLEAN :
        FilterCall("filter_for_derivatives", [derivatives |-> derivatives],
                   Returned(IF derivatives THEN filter_for_derivatives_with(pairs_df, TRUE)
                            ELSE filter_for_derivatives(pairs_df)))

FilterForRebases ==
    \E rebase \in BOOLEAN :
        FilterCall("filter_for_rebases", [rebase |-> rebase],
                   Returned(IF rebase THEN filter_for_rebases_with(pairs_df, TRUE)
                            ELSE filter_for_rebases(pairs_df)))

\* one of the three exclusions
Exclusion(name, df) ==
    CASE name = "stablecoins" -> filter_for_stablecoins(df, only_volatile_pairs).df
      [] name = "derivatives" -> filter_for_derivatives(df)
      [] name = "rebases" -> filter_for_rebases(df)

\* the three exclusions applied one after the other, each on the previous output
ExclusionsApplied(order, df) ==
    Exclusion(order[3], Exclusion(order[2], Exclusion(order[1], df)))

\* a caller applies the three exclusions one after the other, in some order
ExclusionsInOrder ==
    \E order \in ExclusionOrders :
        FilterCall("exclusions", [order |-> order], Returned(ExclusionsApplied(order, pairs_df)))

\* a caller calls filter_pairs_default with arguments of its choice
FilterPairsDefaultCall ==
    \E a \in DefaultArgs :
        /\ fpc = "ready"
        /\ fpc' = "filter_pairs_default"
        /\ fargs' = a
        /\ fres' = filter_pairs_default(pairs_df, a)
        /\ UNCHANGED pairs_df
        /\ UNCHANGED <<tvars, avars>>

FiltersInit ==
    /\ TIdle
    /\ AIdle
    /\ pairs_df \in Tables
    /\ fargs = [none |-> TRUE]
    /\ fpc = "ready"
    /\ fres = [df |-> <<>>, log |-> <<>>]

FiltersNext ==
    \/ FilterForChain
    \/ FilterForExchange
    \/ FilterForExchanges
    \/ FilterForExchangeIds
    \/ FilterForTradingFee
    \/ FilterForQuoteTokens
    \/ FilterForBaseTokens
    \/ FilterForBlacklistedTokens
    \/ FilterForNonasciiTokens
    \/ FilterForStablecoins
    \/ FilterForDerivatives
    \/ FilterForRebases
    \/ ExclusionsInOrder
    \/ FilterPairsDefaultCall

SpecFilters == FiltersInit /\ [][FiltersNext]_vars

\* ========================================================= filter claims
\* The documented default pipeline: its steps in order, when a step is
\* requested (its argument is given), and the rows a step keeps.
ClaimedOrder ==
    <<"chain", "fee", "candles", "exchanges", "exchange_ids", "stablecoin",
      "derivative", "rebase", "quote", "blacklist", "nonascii">>

Requested(step, a) ==
    CASE step = "chain" -> a.chain_id.some
      [] step = "fee" -> a.max_trading_pair_fee_bps.some
      [] step = "candles" -> a.pair_ids_in_candles.some
      [] step = "exchanges" -> a.exchanges.some
      [] step = "exchange_ids" -> a.exchange_ids.some
      [] step = "blacklist" -> a.blacklisted_token_symbols.some
      [] OTHER -> TRUE

Legs(r) == {r.base_token_symbol, r.quote_token_symbol}
LegAddresses(r) == {r.token0_address, r.token1_address}

Keeps(step, r, a) ==
    CASE step = "chain" -> r.chain_id = a.chain_id.v
      [] step = "fee" -> r.fee <= a.max_trading_pair_fee_bps.v
      [] step = "candles" -> r.pair_id \in a.pair_ids_in_candles.v
      [] step = "exchanges" -> \E e \in a.exchanges.v : e.exchange_id = r.exchange_id
      [] step = "exchange_ids" -> r.exchange_id \in a.exchange_ids.v
      [] step = "stablecoin" -> ~(Legs(r) \subseteq ALL_STABLECOIN_LIKE)
      [] step = "derivative" -> \A sym \in Legs(r) : ~is_derivative(sym)
      [] step = "rebase" -> \A sym \in Legs(r) : ~is_rebase(sym)
      [] step = "quote" -> r.quote_token_symbol \in a.good_quote_tokes
      [] step = "blacklist" ->
             \A t \in a.blacklisted_token_symbols.v :
                 /\ \A sym \in Legs(r) : StrLower(sym) # StrLower(t)
                 /\ \A addr \in LegAddresses(r) : StrLower(addr) # StrLower(t)
      [] step = "nonascii" -> \A sym \in Legs(r) : \A i \in 1..Len(sym) : sym[i] <= 127

ClaimedStep(step, st, a) ==
    IF Requested(step, a)
    THEN LET out == SelectSeq(st.df, LAMBDA r : Keeps(step, r, a))
         IN  [df |-> out, counts |-> Append(st.counts, Len(out))]
    ELSE st

RECURSIVE ClaimedRun(_, _, _)
ClaimedRun(k, st, a) ==
    IF k > Len(ClaimedOrder) THEN st
    ELSE ClaimedRun(k + 1,
                    CHOOSE nxt \in {ClaimedStep(ClaimedOrder[k], cur, a) : cur \in {st}} : TRUE,
                    a)

ClaimedDefault(df, a) == ClaimedRun(1, [df |-> df, counts |-> <<>>], a)

\* the counts the print callback was given after the steps (the print of the
\* input size, before the first step, left aside)
StepCounts(log) == [i \in 1..(Len(log) - 1) |-> log[i + 1][2]]

\* C9: filter_pairs_default applies the requested steps in the documented
\* order, each on the output of the previous applied step, and the print
\* callback receives the row count of each applied step's output, in order.
C9_StepsInDocumentedOrder ==
    fpc = "filter_pairs_default" =>
        /\ fres.df = ClaimedDefault(pairs_df, fargs).df
        /\ StepCounts(fres.log) = ClaimedDefault(pairs_df, fargs).counts

\* the call of C10: a fee maximum and a quote allow-set, nothing else
FeeAndQuoteOnly(a) ==
    /\ a.max_trading_pair_fee_bps.some
    /\ ~a.chain_id.some /\ ~a.exchanges.some /\ ~a.exchange_ids.some
    /\ ~a.pair_ids_in_candles.some /\ ~a.blacklisted_token_symbols.some

\* C10: called with a fee maximum and a quote allow-set only,
\* filter_pairs_default returns exactly the rows with fee <= maximum that are
\* not stable-stable, have no derivative or rebasing leg, have their quote
\* token in the allow-set and have ASCII-only symbols.
C10_DefaultPipelineResult ==
    (fpc = "filter_pairs_default" /\ FeeAndQuoteOnly(fargs)) =>
        fres.df = SelectSeq(pairs_df, LAMBDA r :
                      /\ r.fee <= fargs.max_trading_pair_fee_bps.v
                      /\ ~(Legs(r) \subseteq ALL_STABLECOIN_LIKE)
                      /\ \A sym \in Legs(r) : ~is_derivative(sym) /\ ~is_rebase(sym)
                      /\ r.quote_token_symbol \in fargs.good_quote_tokes
                      /\ \A sym \in Legs(r) : \A i \in 1..Len(sym) : sym[i] <= 127)

\* the rows of a table, as a set
Rows(df) == {df[i] : i \in 1..Len(df)}

\* the default pipeline's result with the fee argument left out
WithoutFeeStep(df, a) ==
    filter_pairs_default(df, [a EXCEPT !.max_trading_pair_fee_bps = Nothing(0)]).df

\* C11: in filter_pairs_default, for every integer fee maximum m given as
\* max_trading_pair_fee_bps, no row with fee > m is in the output, and the
\* fee step removes no row whose fee is m or below.
C11_FeeMaximumInclusive ==
    (fpc = "filter_pairs_default" /\ fargs.max_trading_pair_fee_bps.some) =>
        LET m == fargs.max_trading_pair_fee_bps.v
        IN  /\ \A r \in Rows(fres.df) : r.fee <= m
            /\ \A r \in Rows(WithoutFeeStep(pairs_df, fargs)) :
                   r.fee <= m => r \in Rows(fres.df)

\* C17: when a collection of candle pair ids is given to filter_pairs_default
\* (pair_ids_in_candles is not None), the output holds only pairs whose
\* pair_id is in the collection, for an empty collection (the output is then
\* empty) as for any other.
C17_CandlePresence ==
    (fpc = "filter_pairs_default" /\ fargs.pair_ids_in_candles.some) =>
        \A r \in Rows(fres.df) : r.pair_id \in fargs.pair_ids_in_candles.v

\* ============================================== stand-alone filter claims
\* a stand-alone filter was called and returned a table
ReturnedFrom(op) == fpc = op /\ fres.exc.kind = "None"

\* a stand-alone filter was called and raised an assertion error
AssertedIn(op) == fpc = op /\ fres.exc.kind = "raise" /\ fres.exc.exc = "AssertionError"

\* C12 (as stated): filter_for_trading_fee keeps exactly the rows whose fee, in
\* the integer basis-point-like unit, is less than or equal to the configured
\* maximum; rows with a fee below the maximum are kept too.
C12_KeepsUpToMaximum ==
    ReturnedFrom("filter_for_trading_fee") =>
        Rows(fres.df) = {r \in Rows(pairs_df) : r.fee * 10 <= fargs.fee}

\* C12 (amended): filter_for_trading_fee keeps exactly the rows whose fee
\* equals int(fee * 10_000), in their input order; rows with a lower fee are
\* removed like rows with a higher one.
C12_KeepsEqualFee ==
    ReturnedFrom("filter_for_trading_fee") =>
        fres.df = SelectSeq(pairs_df, LAMBDA r : r.fee = IntFee(fargs.fee))

C12_Witness ==
    /\ ReturnedFrom("filter_for_trading_fee")
    /\ \E r \in Rows(pairs_df) : r.fee < IntFee(fargs.fee) /\ r \notin Rows(fres.df)
    /\ \E r \in Rows(pairs_df) : r.fee = IntFee(fargs.fee) /\ r \in Rows(fres.df)

\* The two sides of a pair: the base side is token0 when token0 carries the
\* base symbol and token1 otherwise; the quote side is the other token.
BaseIsToken0(r) == r.token0_symbol = r.base_token_symbol
BaseSide(r) ==
    IF BaseIsToken0(r) THEN [symbol |-> r.token0_symbol, address |-> r.token0_address]
    ELSE [symbol |-> r.token1_symbol, address |-> r.token1_address]
QuoteSide(r) ==
    IF BaseIsToken0(r) THEN [symbol |-> r.token1_symbol, address |-> r.token1_address]
    ELSE [symbol |-> r.token0_symbol, address |-> r.token0_address]

\* C13: filter_for_quote_tokens keeps exactly the rows whose quote-side token
\* has its address in the allow-set and its symbol equal to the row's quote
\* token symbol, so a row whose quote-side address is not in the allow-set is
\* never kept, also when its base-side address is in it and both legs carry
\* the same symbol; filter_for_base_tokens is the same on the base side.
C13_SideAddressInAllowSet ==
    /\ ReturnedFrom("filter_for_quote_tokens") =>
           fres.df = SelectSeq(pairs_df, LAMBDA r :
                         /\ QuoteSide(r).address \in fargs.quote_token_addresses.items
                         /\ QuoteSide(r).symbol = r.quote_token_symbol)
    /\ ReturnedFrom("filter_for_base_tokens") =>
           fres.df = SelectSeq(pairs_df, LAMBDA r :
                         /\ BaseSide(r).address \in fargs.base_token_addresses.items
                         /\ BaseSide(r).symbol = r.base_token_symbol)

\* the symbols and addresses of a row's two tokens
TokenNames(r) == {r.token0_symbol, r.token1_symbol, r.token0_address, r.token1_address}

\* two strings are equal up to letter case
SameIgnoringCase(x, y) == StrLower(x) = StrLower(y)

PrintableAscii(text) == \A i \in 1..Len(text) : text[i] >= 32 /\ text[i] <= 126

\* a string of ASCII characters only (code points up to 127)
AsciiOnly(text) == \A i \in 1..Len(text) : text[i] <= 127

C16_ExclusionOrderIndependent ==
    ReturnedFrom("exclusions") =>
        \A other \in ExclusionOrders :
            Rows(fres.df) = Rows(ExclusionsApplied(other, pairs_df))

C16_Witness ==
    /\ ReturnedFrom("exclusions")
    /\ fargs.order = <<"rebases", "derivatives", "stablecoins">>
    /\ filter_for_rebases(pairs_df) # filter_for_derivatives(pairs_df)
    /\ filter_for_derivatives(pairs_df) # filter_for_stablecoins_volatile(pairs_df)
    /\ fres.df # <<>>
    /\ Len(fres.df) + 2 <= Len(pairs_df)

\* both legs of a pair are recognised stablecoins
StableStable(r) == Legs(r) \subseteq ALL_STABLECOIN_LIKE

\* C18: filter_for_stablecoins has three modes: only_stablecoin_pairs keeps
\* exactly the rows whose both leg symbols are recognised stablecoins,
\* only_volatile_pairs keeps exactly all other rows, all_pairs keeps every
\* row; the outputs of the first two modes are disjoint and together are the
\* whole input; a mode that is not a StablecoinFilteringMode raises an
\* assertion error.
C18_StablecoinModes ==
    fpc = "filter_for_stablecoins" =>
        /\ fargs.mode = only_stablecoin_pairs =>
               fres.exc.kind = "None" /\ fres.df = SelectSeq(pairs_df, StableStable)
        /\ fargs.mode = only_volatile_pairs =>
               /\ fres.exc.kind = "None"
               /\ fres.df = SelectSeq(pairs_df, LAMBDA r : ~StableStable(r))
        /\ fargs.mode = all_pairs => fres.exc.kind = "None" /\ fres.df = pairs_df
        /\ LET stable == Rows(filter_for_stablecoins(pairs_df, only_stablecoin_pairs).df)
               volatile == Rows(filter_for_stablecoins(pairs_df, only_volatile_pairs).df)
           IN  stable \cap volatile = {} /\ stable \cup volatile = Rows(pairs_df)
        /\ fargs.mode \notin {only_stablecoin_pairs, only_volatile_pairs, all_pairs} =>
               AssertedIn("filter_for_stablecoins")

C18_Witness ==
    /\ ReturnedFrom("filter_for_stablecoins")
    /\ fargs.mode = only_stablecoin_pairs
    /\ fres.df # <<>>
    /\ fres.df # pairs_df

\* a string with an upper-case letter in it
HasUpperCase(text) == \E i \in 1..Len(text) : text[i] >= 65 /\ text[i] <= 90

\* the address collection breaks the precondition of the quote and base filters
BadAddresses(addresses) ==
    \/ addresses.type \notin {"list", "set"}
    \/ \E addr \in addresses.items : HasUpperCase(addr)

\* C19: filter_for_quote_tokens and filter_for_base_tokens fail fast: if the
\* address collection holds an address that is not entirely lowercase, or is
\* not a list or a set, the call raises an assertion error and returns no
\* table; the addresses are never lowercased silently.
C19_AddressPreconditionAsserted ==
    /\ (fpc = "filter_for_quote_tokens" /\ BadAddresses(fargs.quote_token_addresses)) =>
           AssertedIn("filter_for_quote_tokens") /\ fres.df = <<>>
    /\ (fpc = "filter_for_base_tokens" /\ BadAddresses(fargs.base_token_addresses)) =>
           AssertedIn("filter_for_base_tokens") /\ fres.df = <<>>

C19_Witness ==
    /\ AssertedIn("filter_for_quote_tokens")
    /\ fargs.quote_token_addresses = Coll("set", {Addr(97), Addr(66)})
    /\ \E r \in Rows(pairs_df) :
           r.token0_address = Addr(97) /\ r.token0_symbol = r.quote_token_symbol

\* out holds rows of df only, with their values, in the order they have in df
SubTable(out, df) == out = SelectSeq(df, LAMBDA r : r \in Rows(out))

\* the counts given to the print callback never go up
CountsNeverIncrease(log) == \A i \in 1..(Len(log) - 1) : log[i + 1][2] <= log[i][2]

\* C20: every filter and filter_pairs_default leave their input table
\* unchanged (same rows, same values, same order) and return rows of the
\* input only; so the counts filter_pairs_default reports to its print
\* callback never increase from one step to the next.
C20_FiltersNarrowWithoutMutation ==
    [][/\ pairs_df' = pairs_df
       /\ SubTable(fres'.df, pairs_df)
       /\ CountsNeverIncrease(fres'.log)]_vars

C20_Witness ==
    /\ fpc = "filter_pairs_default"
    /\ fres.df # <<>>
    /\ Len(fres.df) < Len(pairs_df)
    /\ \E i, j \in 1..(Len(fres.log) - 1) :
           /\ i < j
           /\ fres.log[i + 1][2] < fres.log[i][2]
           /\ fres.log[j + 1][2] < fres.log[j][2]

\* ================================================== transport with a key
\* One client whose constructor was given any api_key or none.
KeyInit == TInit /\ active = {"c1"} /\ cache_period = 1 /\ FIdle /\ AIdle

\* the calls of the transport and the steps of its downloads, the clock standing
KeyNext ==
    \/ \E c \in Callers :
          Identity("pair-universe", NoBucket) \in datasets /\ fetch_pair_universe(c)
          /\ UNCHANGED <<fvars, avars>>
    \/ \E c \in Callers :
          Identity("exchange-universe", NoBucket) \in datasets /\ fetch_exchange_universe(c)
          /\ UNCHANGED <<fvars, avars>>
    \/ \E c \in Callers, b \in Buckets :
          Identity("candles", b) \in datasets /\ fetch_candles_all_time(c, b)
          /\ UNCHANGED <<fvars, avars>>
    \/ \E c \in Callers, b \in Buckets :
          Identity("liquidity", b) \in datasets /\ fetch_liquidity_all_time(c, b)
          /\ UNCHANGED <<fvars, avars>>
    \/ \E c \in Callers, chain_id \in ChainIds : fetch_chain_status(c, chain_id) /\ UNCHANGED <<fvars, avars>>
    \/ \E c \in Callers : ping(c) /\ UNCHANGED <<fvars, avars>>
    \/ \E c \in Callers : message_of_the_day(c) /\ UNCHANGED <<fvars, avars>>
    \/ \E c \in Callers : register(c, "Ann", "Lee", "ann@example.org") /\ UNCHANGED <<fvars, avars>>
    \/ \E c \in Callers : DownloadChunk(c) /\ UNCHANGED <<fvars, avars>>
    \/ \E c \in Callers : DownloadInterrupted(c) /\ UNCHANGED <<fvars, avars>>
    \/ \E c \in Callers : DownloadFinish(c) /\ UNCHANGED <<fvars, avars>>
    \/ \E c \in Callers : Return(c) /\ UNCHANGED <<fvars, avars>>

SpecKey == KeyInit /\ [][KeyNext]_vars

\* the names of the headers of a request
HeaderNames(request) == {h[1] : h \in request.headers}

\* C21: when an API key is configured at construction, every outbound request
\* (JSON GET, JSON POST, every dataset download) carries it in the
\* Authorization header; when none is configured, no request carries an
\* Authorization header.
C21_AuthorizationOnEveryRequest ==
    \A c \in Callers :
        call[c].sent # NoRequest =>
            /\ api_key # "" => <<"Authorization", api_key>> \in call[c].sent.headers
            /\ api_key = "" => "Authorization" \notin HeaderNames(call[c].sent)

C21_Witness ==
    /\ api_key = "secret-key"
    /\ \E c \in Callers :
           /\ call[c].op \in FetchOps
           /\ call[c].ndl = 1
           /\ call[c].sent.method = "GET"
           /\ call[c].sent.headers = {<<"Authorization", "secret-key">>}

\* ================================================== the cache store alone
\* One client that uses the cache store: the cached fetches, the purge, and
\* the two path methods called directly.
PathObj(path) == [kind |-> "path", path |-> path]

\* (mutant) a resolve that creates the cache root
CallGetCachedFilePath_MakesRoot(c, id) ==
    /\ CanStart(c)
    /\ ncalls' = ncalls + 1
    /\ rootExists' = TRUE
    /\ pc' = [pc EXCEPT ![c] = "returned"]
    /\ result' = [result EXCEPT ![c] = PathObj(get_cached_file_path(Fname(id)))]
    /\ call' = [call EXCEPT ![c] = StartCall(c, "get_cached_file_path", id)]
    /\ UNCHANGED <<now, cache_period, api_key, fs, active, datasets>>

\* a caller's transport.get_cached_file_path(fname)
CallGetCachedFilePath(c, id) ==
    /\ CanStart(c)
    /\ ncalls' = ncalls + 1
    /\ pc' = [pc EXCEPT ![c] = "returned"]
    /\ result' = [result EXCEPT ![c] = PathObj(get_cached_file_path(Fname(id)))]
    /\ call' = [call EXCEPT ![c] = StartCall(c, "get_cached_file_path", id)]
    /\ UNCHANGED <<now, cache_period, api_key, rootExists, fs, active, datasets>>

\* a caller's transport.get_cached_item(fname)
CallGetCachedItem(c, id) ==
    /\ CanStart(c)
    /\ ncalls' = ncalls + 1
    /\ pc' = [pc EXCEPT ![c] = "returned"]
    /\ result' = [result EXCEPT ![c] = get_cached_item(Fname(id), fs, now, cache_period)]
    /\ call' = [call EXCEPT ![c] = [StartCall(c, "get_cached_item", id) EXCEPT !.reads = 1]]
    /\ UNCHANGED <<now, cache_period, api_key, rootExists, fs, active, datasets>>

StoreInit == TInit /\ active = {"c1"} /\ api_key = "" /\ FIdle /\ AIdle

StoreNext ==
    \/ \E c \in Callers :
          Identity("pair-universe", NoBucket) \in datasets /\ fetch_pair_universe(c)
          /\ UNCHANGED <<fvars, avars>>
    \/ \E c \in Callers :
          Identity("exchange-universe", NoBucket) \in datasets /\ fetch_exchange_universe(c)
          /\ UNCHANGED <<fvars, avars>>
    \/ \E c \in Callers, b \in Buckets :
          Identity("candles", b) \in datasets /\ fetch_candles_all_time(c, b)
          /\ UNCHANGED <<fvars, avars>>
    \/ \E c \in Callers, b \in Buckets :
          Identity("liquidity", b) \in datasets /\ fetch_liquidity_all_time(c, b)
          /\ UNCHANGED <<fvars, avars>>
    \/ \E c \in Callers, id \in datasets : CallGetCachedFilePath(c, id) /\ UNCHANGED <<fvars, avars>>
    \/ \E c \in Callers, id \in datasets : CallGetCachedItem(c, id) /\ UNCHANGED <<fvars, avars>>
    \/ \E c \in Callers : purge_cache(c) /\ UNCHANGED <<fvars, avars>>
    \/ \E c \in Callers : DownloadChunk(c) /\ UNCHANGED <<fvars, avars>>
    \/ \E c \in Callers : DownloadInterrupted(c) /\ UNCHANGED <<fvars, avars>>
    \/ \E c \in Callers : DownloadFinish(c) /\ UNCHANGED <<fvars, avars>>
    \/ \E c \in Callers : Return(c) /\ UNCHANGED <<fvars, avars>>
    \/ Tick /\ UNCHANGED <<fvars, avars>>

SpecStore == StoreInit /\ [][StoreNext]_vars

\* a call of op has returned to caller c
ReturnedCall(c, op) == pc[c] = "returned" /\ call[c].op = op

\* C23 (as stated): resolving the path of an identity is deterministic and
\* creates the cache root directory if it is absent, so the root exists
\* after any resolve.
C23_ResolveCreatesRoot ==
    \A c \in Callers :
        ReturnedCall(c, "get_cached_file_path") =>
            /\ result[c] = PathObj(OsPathJoin(get_abs_cache_path, Fname(call[c].id)))
            /\ rootExists

\* C23 (amended): resolving the path of an identity is deterministic (the
\* file name of the identity under the absolute cache root) and changes
\* nothing on disk, an absent root stays absent; the root is created by
\* save_response, so it exists after every fetch that went to download.
C23_ResolveIsPure ==
    \A c \in Callers :
        /\ ReturnedCall(c, "get_cached_file_path") =>
               /\ result[c] = PathObj(OsPathJoin(get_abs_cache_path, Fname(call[c].id)))
               /\ rootExists = call[c].rootBefore
               /\ fs[result[c].path] = call[c].before
        /\ (call[c].op \in FetchOps /\ call[c].ndl > 0) => rootExists

C23_Witness ==
    \E c \in Callers :
        /\ ReturnedCall(c, "get_cached_file_path")
        /\ ~call[c].rootBefore
        /\ ~rootExists
        /\ ncalls > 1

\* C22: storing is idempotent and overwriting: a download of some content
\* into an identity leaves the cache file, and what the fetch returns, equal
\* to that content whole, whatever the file held before (the same content,
\* other content, or nothing).
C22_StoreIdempotentOverwrites ==
    \A c \in Callers :
        (pc[c] = "returned" /\ call[c].op \in FetchOps /\ call[c].ndl > 0) =>
            LET file == fs[CachePathOf(call[c].id)]
            IN  /\ call[c].ndl = 1
                /\ file.exists /\ file.body = call[c].served /\ file.size = "complete"
                /\ result[c].kind = "file"
                /\ result[c].body = call[c].served /\ result[c].size = "complete"

C22_Witness ==
    \E c \in Callers :
        /\ pc[c] = "returned" /\ call[c].op \in FetchOps /\ call[c].ndl = 1
        /\ call[c].before.exists
        /\ call[c].before.size = "complete"
        /\ call[c].before.body = call[c].served
        /\ result[c].body = call[c].served

\* C24: purge_cache() raises an error when the cache root directory does not
\* exist, instead of being a no-op, and leaves the file system unchanged.
C24_PurgeRaisesWithoutRoot ==
    \A c \in Callers :
        (call[c].op = "purge_cache" /\ ~call[c].rootBefore) =>
            /\ pc[c] = "raised"
            /\ result[c].kind = "raise"
            /\ ~rootExists
            /\ fs = [p \in CachePaths |-> NoFile]

C24_Witness ==
    \E c \in Callers :
        /\ call[c].op = "purge_cache" /\ ~call[c].rootBefore
        /\ pc[c] = "raised"
        /\ ncalls > 1

\* C27: lookups and cache hits are read-only: get_cached_item and a fetch
\* that hits leave the file's content and modification time as they were, so
\* expiry does not slide; a fetch that finds an entry older than the cache
\* period misses and downloads, whatever hits came before.
C27_HitsAreReadOnly ==
    \A c \in Callers :
        /\ (call[c].op \in FetchOps /\ call[c].hit) =>
               /\ fs[CachePathOf(call[c].id)] = call[c].before
               /\ call[c].ndl = 0
               /\ call[c].t0 - call[c].before.mtime <= cache_period
        /\ ReturnedCall(c, "get_cached_item") =>
               /\ fs[CachePathOf(call[c].id)] = call[c].before
               /\ rootExists = call[c].rootBefore
        /\ (call[c].op \in FetchOps /\ call[c].before.exists
                /\ call[c].t0 - call[c].before.mtime > cache_period) =>
               /\ ~call[c].hit
               /\ call[c].ndl = 1

C27_Witness ==
    \E c \in Callers :
        /\ call[c].op \in FetchOps /\ call[c].hit
        /\ pc[c] = "returned"
        /\ call[c].t0 > call[c].before.mtime
        /\ fs[CachePathOf(call[c].id)].mtime = call[c].before.mtime

\* C28: distinct dataset identities have distinct cache files, and a step
\* changes the file of an identity only when it belongs to a fetch of that
\* very identity that went to download: a fetch never touches the file of
\* another identity.
C28_IdentitiesDoNotInterfere ==
    [][/\ \A i, j \in Identities : i # j => CachePathOf(i) # CachePathOf(j)
       /\ \A p \in CachePaths :
            fs'[p] # fs[p] =>
                \E c \in Callers :
                    /\ call'[c].op \in FetchOps
                    /\ call'[c].ndl = 1
                    /\ CachePathOf(call'[c].id) = p]_vars

C28_Witness ==
    \E i, j \in datasets :
        /\ i # j
        /\ fs[CachePathOf(i)].exists /\ fs[CachePathOf(i)].size = "complete"
        /\ fs[CachePathOf(j)].exists /\ fs[CachePathOf(j)].size = "complete"
        /\ fs[CachePathOf(i)].body # fs[CachePathOf(j)].body
        /\ fs[CachePathOf(i)].mtime # fs[CachePathOf(j)].mtime

\* ------------------------------------------------- two concurrent callers
\* The arguments each fetch_* passes on for its identity.
FetchArgs(id) ==
    CASE id.kind = "pair-universe" ->
            [op |-> "fetch_pair_universe", fname |-> Fname(id),
             api_path |-> "pair-universe", params |-> NoParams, recheck |-> Fname(id)]
      [] id.kind = "exchange-universe" ->
            [op |-> "fetch_exchange_universe", fname |-> Fname(id),
             api_path |-> "exchange-universe", params |-> NoParams, recheck |-> Fname(id)]
      [] id.kind = "candles" ->
            [op |-> "fetch_candles_all_time", fname |-> Fname(id),
             api_path |-> "candles-all", params |-> <<"bucket", id.bucket>>,
             recheck |-> get_cached_file_path(Fname(id))]
      [] id.kind = "liquidity" ->
            [op |-> "fetch_liquidity_all_time", fname |-> Fname(id),
             api_path |-> "liquidity-all", params |-> <<"bucket", id.bucket>>,
             recheck |-> get_cached_file_path(Fname(id))]

\* The first statements of a fetch_*: cached = self.get_cached_item(fname);
\* a hit returns at once, a miss goes on to the store.
FetchLookup(c, id) ==
    /\ CanStart(c)
    /\ ncalls' = ncalls + 1
    /\ LET a == FetchArgs(id)
           cl == [StartCall(c, a.op, id) EXCEPT !.reads = 1, !.recheck = a.recheck]
           cached == get_cached_item(a.fname, fs, now, cache_period)
       IN  IF PyTruth(cached)
           THEN /\ pc' = [pc EXCEPT ![c] = "returned"]
                /\ result' = [result EXCEPT ![c] = cached]
                /\ call' = [call EXCEPT ![c] = [cl EXCEPT !.hit = TRUE]]
           ELSE /\ pc' = [pc EXCEPT ![c] = "missed"]
                /\ call' = [call EXCEPT ![c] = cl]
                /\ UNCHANGED result
    /\ UNCHANGED <<now, cache_period, api_key, rootExists, fs, active, datasets>>

\* (mutant) a store that waits while another caller downloads into the path
FetchStore_Locked(c) ==
    /\ pc[c] = "missed"
    /\ \A d \in Callers \ {c} :
         ~(pc[d] = "downloading"
             /\ call[d].dl.fpath = get_cached_file_path(FetchArgs(call[c].id).fname))
    /\ LET a == FetchArgs(call[c].id)
       IN  save_response(c, call[c], get_cached_file_path(a.fname), a.api_path, a.params)
    /\ UNCHANGED <<now, cache_period, api_key, active, datasets, ncalls>>

\* The statements after a miss: path = self.get_cached_file_path(fname);
\* self.save_response(path, ...). Nothing is taken or tested in between.
FetchStore(c) ==
    /\ pc[c] = "missed"
    /\ LET a == FetchArgs(call[c].id)
       IN  save_response(c, call[c], get_cached_file_path(a.fname), a.api_path, a.params)
    /\ UNCHANGED <<now, cache_period, api_key, active, datasets, ncalls>>

\* Two callers share one transport; each fetch is one call, and as many
\* fetches are started as there are callers.
RaceInit == TInit /\ active = Callers /\ api_key = "" /\ cache_period = 1 /\ FIdle /\ AIdle

RaceNext ==
    \/ \E c \in Callers, id \in datasets :
          ncalls < Cardinality(Callers) /\ FetchLookup(c, id) /\ UNCHANGED <<fvars, avars>>
    \/ \E c \in Callers : FetchStore(c) /\ UNCHANGED <<fvars, avars>>
    \/ \E c \in Callers : DownloadChunk(c) /\ UNCHANGED <<fvars, avars>>
    \/ \E c \in Callers : DownloadInterrupted(c) /\ UNCHANGED <<fvars, avars>>
    \/ \E c \in Callers : DownloadFinish(c) /\ UNCHANGED <<fvars, avars>>
    \/ \E c \in Callers : Return(c) /\ UNCHANGED <<fvars, avars>>
    \/ Tick /\ UNCHANGED <<fvars, avars>>

SpecRace == RaceInit /\ [][RaceNext]_vars

\* C25: no lock is held between the lookup and the store: a caller that saw
\* a miss can always go on to download, also while another caller downloads
\* into the same cache path, so two callers that fetch the same absent or
\* expired identity can both be writing the one file.
C25_StoreNeverWaits ==
    \A c \in Callers : pc[c] = "missed" => ENABLED (FetchStore(c) /\ UNCHANGED <<fvars, avars>>)

C25_Witness ==
    \E c, d \in Callers :
        /\ c # d
        /\ pc[c] = "downloading" /\ pc[d] = "downloading"
        /\ ~call[c].hit /\ ~call[d].hit
        /\ call[c].id = call[d].id
        /\ call[c].dl.fpath = call[d].dl.fpath
        /\ ~call[c].before.exists /\ ~call[d].before.exists
        /\ fs[call[c].dl.fpath].exists

\* C26: a fetch never returns the content of a cache file that another
\* caller is still downloading: no caller holds a hit on a file while
\* another caller's download into that file is under way.
C26_NoHitOnFileInDownload ==
    \A c, d \in Callers :
        (c # d /\ pc[d] = "downloading" /\ call[c].op \in FetchOps
            /\ call[d].dl.fpath = CachePathOf(call[c].id)) => ~call[c].hit

\* a leg of the row carries a symbol of the kind
EitherLeg(r, IsMarked(_)) == IsMarked(r.token0_symbol) \/ IsMarked(r.token1_symbol)

Complementary(df, out, other) ==
    /\ Rows(out) \cap Rows(other) = {}
    /\ Rows(out) \cup Rows(other) = Rows(df)
    /\ Len(out) + Len(other) = Len(df)

\* C29: for filter_for_derivatives and for filter_for_rebases the two flag
\* values are complementary: with the flag False the output is the rows where
\* neither leg's symbol is a derivative (rebasing) token, with the flag True
\* the rows where at least one leg's symbol is; the two outputs are disjoint
\* and together they are the whole input.
C29_FlagsAreComplementary ==
    /\ ReturnedFrom("filter_for_derivatives") =>
         /\ Rows(fres.df) = {r \in Rows(pairs_df) : EitherLeg(r, is_derivative) = fargs.derivatives}
         /\ SubTable(fres.df, pairs_df)
         /\ Complementary(pairs_df, fres.df,
                          filter_for_derivatives_with(pairs_df, ~fargs.derivatives))
    /\ ReturnedFrom("filter_for_rebases") =>
         /\ Rows(fres.df) = {r \in Rows(pairs_df) : EitherLeg(r, is_rebase) = fargs.rebase}
         /\ SubTable(fres.df, pairs_df)
         /\ Complementary(pairs_df, fres.df,
                          filter_for_rebases_with(pairs_df, ~fargs.rebase))

C29_Witness ==
    /\ ReturnedFrom("filter_for_derivatives")
    /\ fargs.derivatives
    /\ fres.df # <<>>
    /\ Len(fres.df) < Len(pairs_df)
    /\ \E r \in Rows(fres.df) : is_derivative(r.token0_symbol) # is_derivative(r.token1_symbol)
    /\ \E r \in Rows(pairs_df) : EitherLeg(r, is_rebase)

\* ================================================ ape-in-the-latest strategy
MaxDay == 3         \* days the strategy is ticked

\* ------------------------------------------------------------- python dicts
\* A dict keeps its items in insertion order: a sequence of <<key, value>>.
EmptyDict == <<>>
DictKeys(d) == {d[i][1] : i \in 1..Len(d)}
DictGet(d, k) == d[CHOOSE i \in 1..Len(d) : d[i][1] = k][2]
DictSet(d, k, v) ==
    IF k \in DictKeys(d)
    THEN [i \in 1..Len(d) |-> IF d[i][1] = k THEN <<k, v>> ELSE d[i]]
    ELSE Append(d, <<k, v>>)

\* ----------------------------------------------------------- the universes
\* pair_universe.get_all_pair_ids(): the pair ids, in the universe's order
get_all_pair_ids(pair_universe) == pair_universe

\* liquidity_universe.get_liquidity_by_pair(pair_id): the samples of the
\* pair, indexed by day
get_liquidity_by_pair(liquidity_universe, pair_id) == liquidity_universe[pair_id]

\* liquidity_samples["open"][ts]: the open value of the day's sample, or
\* KeyError when the index has no such day
SeriesItem(liquidity_samples, ts) ==
    IF ts \in DOMAIN liquidity_samples /\ liquidity_samples[ts].some
    THEN [kind |-> "value", v |-> liquidity_samples[ts].v]
    ELSE Raise("KeyError", "")

\* try: liquidity_today = ...[ts]  except KeyError: liquidity_today = 0
LiquidityToday(liquidity_samples, ts) ==
    LET item == SeriesItem(liquidity_samples, ts)
    IN  IF item.kind = "raise" THEN 0 ELSE item.v

\* ------------------------------------------ update_pair_liquidity_threshold
\* (mutant) a loop body that stamps a pair again on every day it is liquid
VisitPair_Restamps(pair_id, now_, threshold, acc, liquidity_universe) ==
    LET liquidity_today == LiquidityToday(get_liquidity_by_pair(liquidity_universe, pair_id), now_)
    IN  IF liquidity_today >= threshold
        THEN [reached_state |-> DictSet(acc.reached_state, pair_id, now_),
              new_entries |-> DictSet(acc.new_entries, pair_id, liquidity_today)]
        ELSE acc

\* the body of `for pair_id in pair_universe.get_all_pair_ids()`
VisitPair(pair_id, now_, threshold, acc, liquidity_universe) ==
    IF pair_id \notin DictKeys(acc.reached_state)
    THEN LET liquidity_today ==
                 LiquidityToday(get_liquidity_by_pair(liquidity_universe, pair_id), now_)
         IN  IF liquidity_today >= threshold
             THEN [reached_state |-> DictSet(acc.reached_state, pair_id, now_),
                   new_entries |-> DictSet(acc.new_entries, pair_id, liquidity_today)]
             ELSE acc
    ELSE acc

RECURSIVE VisitPairs(_, _, _, _, _)
VisitPairs(pair_ids, now_, threshold, acc, liquidity_universe) ==
    IF pair_ids = <<>> THEN acc
    ELSE VisitPairs(Tail(pair_ids), now_, threshold,
                    VisitPair(Head(pair_ids), now_, threshold, acc, liquidity_universe),
                    liquidity_universe)

\* The reached_state dict is changed in place and new_entries is returned:
\* both are given back here.
update_pair_liquidity_threshold(now_, threshold, reached_state, pair_universe, liquidity_universe) ==
    VisitPairs(get_all_pair_ids(pair_universe), now_, threshold,
               [reached_state |-> reached_state, new_entries |-> EmptyDict],
               liquidity_universe)

\* sorted(fresh_pairs, key=lambda x: x[1], reverse=True)[0][0]: the sort is
\* stable, so of the pairs with the latest day the first inserted comes first
LatestPairId(reached_state) ==
    LET i == CHOOSE i \in 1..Len(reached_state) :
                 /\ \A j \in 1..Len(reached_state) : reached_state[j][2] <= reached_state[i][2]
                 /\ \A j \in 1..(i - 1) : reached_state[j][2] < reached_state[i][2]
    IN  reached_state[i][1]

\* ------------------------------------------------------------------ inputs
PairUniverses == {<<1, 2>>, <<2, 1>>}
PairIdsOf(pair_universe) == {pair_universe[i] : i \in 1..Len(pair_universe)}
OpenValues == {Nothing(0), Some(50), Some(100)}
MinLiquidityArgs == {0, 100}
StartDate == 0

ApeInit ==
    /\ TIdle
    /\ FIdle
    /\ \E pu \in PairUniverses :
         \E lu \in [PairIdsOf(pu) -> [1..MaxDay -> OpenValues]] :
            universe = [pair_universe |-> pu, liquidity_universe |-> lu]
    /\ \E min_liquidity \in MinLiquidityArgs :
         strategy = [start_date |-> StartDate, min_liquidity |-> min_liquidity, day |-> 0,
                     liquidity_reached_state |-> EmptyDict, new_entries |-> EmptyDict,
                     status |-> "ready", latest_pair_id |-> 0, bought |-> 0, exc |-> None]

\* a caller (a test) calls update_pair_liquidity_threshold for the next day
\* on the strategy's state
DailyUpdate ==
    /\ strategy.status # "raised"
    /\ strategy.day < MaxDay
    /\ LET day == strategy.day + 1
           r == update_pair_liquidity_threshold(
                    strategy.start_date + day, strategy.min_liquidity,
                    strategy.liquidity_reached_state,
                    universe.pair_universe, universe.liquidity_universe)
       IN  strategy' = [strategy EXCEPT !.day = day,
                                        !.liquidity_reached_state = r.reached_state,
                                        !.new_entries = r.new_entries,
                                        !.status = "updated"]
    /\ UNCHANGED <<universe, tvars, fvars>>

\* ApeTheLatestStrategy.next: the tick of one day. The position held and the
\* close price come from the backtesting engine and are any value here.
StrategyNext ==
    /\ strategy.status # "raised"
    /\ strategy.day < MaxDay
    /\ LET day == strategy.day + 1
           r == update_pair_liquidity_threshold(
                    strategy.start_date + day, strategy.min_liquidity,
                    strategy.liquidity_reached_state,
                    universe.pair_universe, universe.liquidity_universe)
           s1 == [strategy EXCEPT !.day = day,
                                  !.liquidity_reached_state = r.reached_state,
                                  !.new_entries = r.new_entries]
       IN  IF r.reached_state = EmptyDict
           THEN strategy' = [s1 EXCEPT !.status = "raised", !.exc = Raise("IndexError", "")]
           ELSE \E owning \in BOOLEAN, price \in {0, 1} :
                  LET s2 == [s1 EXCEPT !.latest_pair_id = LatestPairId(r.reached_state)]
                  IN  IF owning
                      THEN strategy' = [s2 EXCEPT !.status = "ticked"]
                      ELSE IF price > 0
                      THEN strategy' = [s2 EXCEPT !.status = "ticked",
                                                  !.bought = s2.latest_pair_id]
                      ELSE strategy' = [s2 EXCEPT !.status = "raised", !.exc = AssertionError("")]
    /\ UNCHANGED <<universe, tvars, fvars>>

ApeNext == DailyUpdate \/ StrategyNext

SpecApe == ApeInit /\ [][ApeNext]_vars

\* the pair's open liquidity of a day, 0 when the day has no sample
OpenLiquidity(pair_id, day) ==
    LET sample == universe.liquidity_universe[pair_id][day]
    IN  IF sample.some THEN sample.v ELSE 0

\* the first day of 1..last on which the pair's liquidity is at least the threshold
FirstLiquidDay(pair_id, day, last) ==
    /\ day \in 1..last
    /\ OpenLiquidity(pair_id, day) >= strategy.min_liquidity
    /\ \A d \in 1..(day - 1) : OpenLiquidity(pair_id, d) < strategy.min_liquidity

\* C30: over the daily calls of update_pair_liquidity_threshold on one
\* reached_state, a pair is added at most once, on the first day on which its
\* open liquidity is at least the threshold and with that day as its value;
\* entries already there are never changed or removed; and each call returns
\* exactly the pairs it added, with their liquidity of that day (0 for a pair
\* with no sample on that day).
C30_ReachedOnceOnFirstLiquidDay ==
    [][strategy'.day = strategy.day + 1 =>
        LET before == strategy.liquidity_reached_state
            after == strategy'.liquidity_reached_state
            returned == strategy'.new_entries
            today == strategy'.day
            added == {p \in PairIdsOf(universe.pair_universe) :
                        /\ p \notin DictKeys(before)
                        /\ OpenLiquidity(p, today) >= strategy.min_liquidity}
        IN  /\ \A i \in 1..Len(before) : i <= Len(after) /\ after[i] = before[i]
            /\ DictKeys(after) = DictKeys(before) \cup added
            /\ Len(after) = Cardinality(DictKeys(after))
            /\ \A p \in added : DictGet(after, p) = today
            /\ \A p \in DictKeys(after) : FirstLiquidDay(p, DictGet(after, p), today)
            /\ \A p \in PairIdsOf(universe.pair_universe) \ DictKeys(after) :
                   \A d \in 1..today : OpenLiquidity(p, d) < strategy.min_liquidity
            /\ DictKeys(returned) = added
            /\ Len(returned) = Cardinality(added)
            /\ \A p \in added : DictGet(returned, p) = OpenLiquidity(p, today)]_vars

C30_Witness ==
    /\ Len(strategy.liquidity_reached_state) = 2
    /\ strategy.liquidity_reached_state[1][2] < strategy.liquidity_reached_state[2][2]
    /\ strategy.day > strategy.liquidity_reached_state[2][2]
    /\ strategy.new_entries = EmptyDict
    /\ \E p \in DictKeys(strategy.liquidity_reached_state) :
           /\ OpenLiquidity(p, strategy.day) >= strategy.min_liquidity
           /\ \E d \in 1..(DictGet(strategy.liquidity_reached_state, p) - 1) :
                  ~universe.liquidity_universe[p][d].some

====
